---- MODULE Spec2Model ----
(***************************************************************************)
(* Inbound SMTP/LMTP session engine: the driver of Session::ingest         *)
(* (crates/smtp/src/inbound/session.rs) and the recipient pipeline of      *)
(* Session::handle_rcpt_to (crates/smtp/src/inbound/rcpt.rs).              *)
(*                                                                         *)
(* Input encoding.  A byte is a token.  "LF" is the line terminator        *)
(* (CRLF), "." the dot, "x" an ordinary octet.  Every other token is the   *)
(* text of one command line without its terminator (the parser of the      *)
(* smtp_proto crate turns the text into a Request); a command is the token *)
(* followed by "LF".  Any other line is an unknown command.                *)
(*                                                                         *)
(* One ingest call is the action Ingest (the call starts, the driver       *)
(* state is taken out of the session) followed by one action per byte the  *)
(* receivers pull from the slice; the action that pulls the last byte      *)
(* also runs the rest of the loop and the return.  The bytes of a slice    *)
(* are drawn as they are pulled: the code reads them in order and uses of  *)
(* the slice nothing else but its length.                                  *)
(***************************************************************************)
EXTENDS Integers, Sequences, FiniteSets, TLC

\* ------------------------------------------------------------------ bounds

\* Longest slice handed to one ingest call.
MaxSlice == 3

\* Stand-in for smtp_proto's MAX_LINE_LENGTH, scaled to the model.
MaxLine == 2

\* Width in bits of the machine word (usize), scaled to the model.
WordBits == 3

\* Largest params.max_message_size a session is created with.
MaxSize == 3

\* Largest params.rcpt_max a session is created with.
MaxRcpt == 2

\* Largest params.rcpt_errors_max a session is created with.
MaxErrors == 2

\* Length of the byte stream of the pipelining comparison.
MaxStream == 9

WordMod == 2 ^ WordBits

\* ------------------------------------------------------------- addresses

\* str::to_lowercase on the addresses of the model.
ToLowercase(a) ==
  CASE a = "A@x" -> "a@x"
    [] a = "B@y" -> "b@y"
    [] OTHER -> a

\* DomainPart::domain_part: the suffix after the last '@'.
DomainPart(a) ==
  CASE a \in {"a@x", "A@x"} -> "x"
    [] a \in {"b@y", "B@y"} -> "y"
    [] OTHER -> a

\* str::contains('@')
ContainsAt(v) == v \in {"a@x", "A@x", "b@y", "B@y", "s@z"}

\* SessionAddress as built by handle_rcpt_to from a RcptTo.
SessionAddress(address, flags, orcpt) ==
  [address |-> address,
   address_lcase |-> ToLowercase(address),
   domain |-> DomainPart(ToLowercase(address)),
   flags |-> flags,
   dsn_info |-> orcpt]

\* PartialEq for SessionAddress: equality of the lowercased address.
AddrEq(r1, r2) == r1.address_lcase = r2.address_lcase

\* Vec::contains under that equality.
Contains(rcpts, r) == \E i \in 1..Len(rcpts) : AddrEq(rcpts[i], r)

\* Vec::pop
Pop(q) == IF Len(q) = 0 THEN q ELSE SubSeq(q, 1, Len(q) - 1)

\* ---------------------------------------------------------- driver state

\* The variants of State with the receiver each one holds.
\*   Request(RequestReceiver{buf})          buf: the line read so far
\*   Data(DataReceiver)                     st: "mid", "crlf" (after CRLF), "dot" (after CRLF.)
\*   Bdat(BdatReceiver{bytes_left,is_last})
\*   Sasl(LineReceiver{buf, state})
\*   DataTooLarge(DummyDataReceiver)        is_bdat, bytes_left / st
\*   RequestTooLarge(DummyLineReceiver)
\*   None                                   the sentinel left in the slot during ingest
MkState(tag, buf, st, bytes_left, is_last, is_bdat) ==
  [tag |-> tag, buf |-> buf, st |-> st, bytes_left |-> bytes_left,
   is_last |-> is_last, is_bdat |-> is_bdat]

StateNone == MkState("None", <<>>, "mid", 0, FALSE, FALSE)

\* State::default(): Request with an empty receiver.
StateDefault == MkState("Request", <<>>, "mid", 0, FALSE, FALSE)

\* State::Data(DataReceiver::new())
StateData == MkState("Data", <<>>, "mid", 0, FALSE, FALSE)

\* State::Bdat(BdatReceiver::new(chunk_size, is_last))
StateBdat(chunk_size, is_last) ==
  MkState("Bdat", <<>>, "mid", chunk_size, is_last, FALSE)

\* State::Sasl(LineReceiver::new(token))
StateSasl == MkState("Sasl", <<>>, "mid", 0, FALSE, FALSE)

\* State::DataTooLarge(DummyDataReceiver::new_bdat(chunk_size))
StateTooLargeBdat(chunk_size) ==
  MkState("DataTooLarge", <<>>, "mid", chunk_size, FALSE, TRUE)

\* State::DataTooLarge(DummyDataReceiver::new_data(receiver)): keeps the
\* terminator progress of the DataReceiver it replaces.
StateTooLargeData(receiver) ==
  MkState("DataTooLarge", <<>>, receiver.st, 0, FALSE, FALSE)

\* State::RequestTooLarge(DummyLineReceiver::default())
StateRequestTooLarge == MkState("RequestTooLarge", <<>>, "mid", 0, FALSE, FALSE)

LiveTags == {"Request", "Data", "Bdat", "Sasl", "DataTooLarge", "RequestTooLarge"}

\* ------------------------------------------------------------- session

\* Option<T>: None is <<>>, Some(v) is <<v>>.
None == <<>>
Some(v) == <<v>>

\* The session a listener creates for one connection (Session, SessionData,
\* SessionParameters of crate::core), with the configuration it reads.
\*   slot   self.state            state  the local `state` of ingest
\*   blen   bytes.len()           left   bytes the iterator still holds
\*   ret    "run" inside ingest; then what ingest returned: "continue"
\*          Ok(true), "tls" Ok(false), "disconnect" Err(()), "panic"
\*   out    the responses written since the current action began
\*   wf     the write of the current action at which the stream fails (0: none)
\*   req    the request the current action dispatched ("" if none)
\*   consulted, queued: what the current action asked of its collaborators
\*   carried        rcpt_errors as the last reset found it (0 before any)
\*   dropped        a 552 has discarded body bytes since the last reset
NewSession(protocol, rcpt_max, max_message_size, rcpt_dsn, rcpt_errors_max, has_filter) ==
  [protocol |-> protocol,
   acceptor_tls |-> TRUE,
   stream_tls |-> FALSE,
   rcpt_max |-> rcpt_max,
   max_message_size |-> max_message_size,
   rcpt_dsn |-> rcpt_dsn,
   rcpt_errors_max |-> rcpt_errors_max,
   auth_directory |-> TRUE,
   has_rewrite |-> has_filter,
   has_milter |-> FALSE,
   session_id |-> 7,
   helo_domain |-> "",
   authenticated_as |-> "",
   mail_from |-> None,
   rcpt_to |-> <<>>,
   message |-> <<>>,
   priority |-> 0,
   delivery_by |-> 0,
   future_release |-> 0,
   rcpt_errors |-> 0,
   carried |-> 0,
   dropped |-> FALSE,
   slot |-> StateDefault,
   state |-> StateNone,
   blen |-> 0,
   left |-> 0,
   ret |-> "continue",
   out |-> <<>>,
   wf |-> 0,
   req |-> "",
   consulted |-> <<>>,
   queued |-> <<>>]

Running(s) == s.ret = "run"

\* Session::write: write_all and flush; any transport error is Err(()),
\* which every caller propagates with `?` or returns.
Write(s, bytes) ==
  IF ~Running(s) THEN s
  ELSE IF s.wf = Len(s.out) + 1 THEN [s EXCEPT !.ret = "disconnect"]
  ELSE [s EXCEPT !.out = Append(@, bytes)]

\* A faulty reset that keeps the recipients: the fault C5 has to detect.
ResetMissesRcpt(s) ==
  [s EXCEPT !.mail_from = None, !.message = <<>>,
            !.priority = 0, !.delivery_by = 0, !.future_release = 0]

\* A reset that also forgets the greeting, the authenticated identity and
\* the recipient errors: the fault C17 has to detect.
ResetClearsIdentity(s) ==
  [s EXCEPT !.mail_from = None, !.rcpt_to = <<>>, !.message = <<>>,
            !.priority = 0, !.delivery_by = 0, !.future_release = 0,
            !.helo_domain = "", !.authenticated_as = "", !.rcpt_errors = 0]

\* A reset that starts the count of recipient errors anew: the fault C30
\* has to detect.
ResetClearsErrors(s) ==
  [s EXCEPT !.mail_from = None, !.rcpt_to = <<>>, !.message = <<>>,
            !.priority = 0, !.delivery_by = 0, !.future_release = 0,
            !.rcpt_errors = 0, !.carried = s.rcpt_errors]

\* Session::reset.  rcpt_errors is not among the fields it assigns; the
\* model notes in `carried` the value it passed over, and begins a new
\* transaction in `dropped`.
reset(s) ==
  [s EXCEPT !.mail_from = None, !.rcpt_to = <<>>, !.message = <<>>,
            !.priority = 0, !.delivery_by = 0, !.future_release = 0,
            !.carried = s.rcpt_errors, !.dropped = FALSE]

\* A RECIPIENT that resolves to the first entry: the fault C28 has to
\* detect.
FirstRecipient(s) ==
  IF Len(s.rcpt_to) = 0 THEN "" ELSE s.rcpt_to[1].address_lcase

\* resolve_variable(V_RECIPIENT): the lowercased address of the last entry.
V_RECIPIENT(s) ==
  IF Len(s.rcpt_to) = 0 THEN "" ELSE s.rcpt_to[Len(s.rcpt_to)].address_lcase

\* resolve_variable(V_RECIPIENT_DOMAIN)
V_RECIPIENT_DOMAIN(s) ==
  IF Len(s.rcpt_to) = 0 THEN "" ELSE s.rcpt_to[Len(s.rcpt_to)].domain

\* A collaborator is asked: eval_if, run_script, run_milters, run_mta_hooks,
\* is_local_domain, rcpt, is_allowed, sleep, queue_message.  The entry keeps
\* what RECIPIENT and RECIPIENT_DOMAIN resolved to at that moment, the
\* error counter, the
\* number of responses written before the call, and the answer where a
\* claim needs it.
ConsultAnswer(s, stage, answer) ==
  [s EXCEPT !.consulted = Append(@, [stage |-> stage, recipient |-> V_RECIPIENT(s),
                                     domain |-> V_RECIPIENT_DOMAIN(s),
                                     errors |-> s.rcpt_errors,
                                     written |-> Len(s.out),
                                     answer |-> answer])]

Consult(s, stage) == ConsultAnswer(s, stage, "")

\* self.data.rcpt_to.pop()
PopRcpt(s) == [s EXCEPT !.rcpt_to = Pop(@)]

\* ------------------------------------------------- recipient pipeline

\* An error path that never disconnects: the fault C13 has to detect.
RcptErrorNoDisconnect(s, response) ==
  Write([Consult(s, "sleep") EXCEPT !.rcpt_errors = @ + 1], response)

\* An error path that writes the status before it sleeps and counts: the
\* fault C12 has to detect.
RcptErrorWriteFirst(s, response) ==
  LET s1 == Write(s, response)
      s2 == Consult([s1 EXCEPT !.rcpt_errors = @ + 1], "sleep")
  IN IF ~Running(s1) THEN s1
     ELSE IF s2.rcpt_errors < s2.rcpt_errors_max THEN s2
     ELSE LET s3 == Write(s2, "421 4.3.0 Too many errors, disconnecting.")
          IN IF Running(s3) THEN [s3 EXCEPT !.ret = "disconnect"] ELSE s3

\* Session::rcpt_error
rcpt_error(s, response) ==
  LET s1 == Consult(s, "sleep")
      s2 == [s1 EXCEPT !.rcpt_errors = @ + 1]
      s3 == Write(s2, response)
  IN IF ~Running(s3) THEN s3
     ELSE IF s3.rcpt_errors < s3.rcpt_errors_max THEN s3
     ELSE LET s4 == Write(s3, "421 4.3.0 Too many errors, disconnecting.")
          IN IF Running(s4) THEN [s4 EXCEPT !.ret = "disconnect"] ELSE s4

\* A refusal of the rate limit that keeps the recipient: the fault C24 has
\* to detect.
RateLimitKeepsRcpt(s, o) ==
  LET s1 == ConsultAnswer(s, "is_allowed", IF o.allowed THEN "true" ELSE "false")
  IN IF o.allowed
     THEN Write(s1, "250 2.1.5 OK")
     ELSE Write(s1, "451 4.4.5 Rate limit exceeded, try again later.")

\* handle_rcpt_to, rate limit and success: is_allowed(), then 250.
RcptRateLimit(s, o) ==
  LET s1 == ConsultAnswer(s, "is_allowed", IF o.allowed THEN "true" ELSE "false")
  IN IF o.allowed
     THEN Write(s1, "250 2.1.5 OK")
     ELSE Write(PopRcpt(s1), "451 4.4.5 Rate limit exceeded, try again later.")

\* A relay predicate that counts no value as true: the fault C23 has to
\* detect.
RelayUnlessFalse(o) == o.relay # "false"

\* The relay predicate: eval_if(rcpt.relay).unwrap_or(false)
RelayAllowed(o) == o.relay = "true"

\* A directory failure that counts as a recipient error: the fault C16 has
\* to detect.
VerifyFailureCounted(s) ==
  rcpt_error(PopRcpt(s), "451 4.4.3 Unable to verify address at this time.")

\* handle_rcpt_to, the directory could not answer (lines 203-212, 235-244):
\* the recipient is popped and 451 written.
VerifyUnavailable(s) ==
  Write(PopRcpt(s), "451 4.4.3 Unable to verify address at this time.")

\* handle_rcpt_to, "Verify address": directory lookup or relay predicate.
\* o.dir: "none" no directory resolved, "domain_err" is_local_domain failed,
\* "local_ok" / "local_absent" / "local_err" the answers of rcpt() for a
\* local domain, "remote" is_local_domain answered false.  An Err of the
\* directory is entered in the trace as "directory_error".
RcptVerify(s, o) ==
  LET s1 == ConsultAnswer(s, "directory", IF o.dir # "none" THEN "some" ELSE "none") IN
  IF o.dir # "none"
  THEN LET s2 == ConsultAnswer(s1, "is_local_domain",
                               CASE o.dir = "domain_err" -> "err"
                                 [] o.dir = "remote" -> "false"
                                 [] OTHER -> "true") IN
       IF o.dir # "domain_err"
       THEN IF o.dir # "remote"
            THEN LET s3 == ConsultAnswer(s2, "rcpt",
                                         CASE o.dir = "local_err" -> "err"
                                           [] o.dir = "local_absent" -> "false"
                                           [] OTHER -> "true") IN
                 IF o.dir # "local_err"
                 THEN IF o.dir = "local_absent"
                      THEN rcpt_error(PopRcpt(s3), "550 5.1.2 Mailbox does not exist.")
                      ELSE RcptRateLimit(s3, o)
                 ELSE VerifyUnavailable(Consult(s3, "directory_error"))
            ELSE LET s3 == ConsultAnswer(s2, "relay", o.relay) IN
                 IF ~RelayAllowed(o)
                 THEN rcpt_error(PopRcpt(s3), "550 5.1.2 Relay not allowed.")
                 ELSE RcptRateLimit(s3, o)
       ELSE VerifyUnavailable(Consult(s2, "directory_error"))
  ELSE LET s2 == ConsultAnswer(s1, "relay", o.relay) IN
       IF ~RelayAllowed(o)
       THEN rcpt_error(PopRcpt(s2), "550 5.1.2 Relay not allowed.")
       ELSE RcptRateLimit(s2, o)

\* The last recipient with its address replaced (rewrite, lines 156-161).
SetLastAddress(s, new_address) ==
  LET n == Len(s.rcpt_to) IN
  [s EXCEPT !.rcpt_to[n].address_lcase = ToLowercase(new_address),
            !.rcpt_to[n].domain = DomainPart(ToLowercase(new_address)),
            !.rcpt_to[n].address = new_address]

\* handle_rcpt_to, "Address rewriting": eval_if(rcpt.rewrite).
RcptRewrite(s, o) ==
  LET s1 == ConsultAnswer(s, "rewrite", o.rewrite) IN
  IF o.rewrite # "none" /\ ContainsAt(o.rewrite)
  THEN SetLastAddress(s1, o.rewrite)
  ELSE s1

\* How many entries equal the last one (itself included).
CountLast(s) ==
  Cardinality({i \in 1..Len(s.rcpt_to) : AddrEq(s.rcpt_to[i], s.rcpt_to[Len(s.rcpt_to)])})

\* A pipeline without the second duplicate check: the fault C2 has to
\* detect.
RcptNoDedup(s, o) == RcptVerify(s, o)

\* handle_rcpt_to, "Check for duplicates" after the rewrite, then on to the
\* verification.
RcptDedup(s, o) ==
  IF CountLast(s) > 1
  THEN Write(PopRcpt(s), "250 2.1.5 OK")
  ELSE RcptVerify(s, o)

\* SessionData::apply_envelope_modification for the envelope's "to".
ApplyEnvelopeTo(s, value) ==
  IF ContainsAt(value) THEN SetLastAddress(s, value) ELSE s

\* A hook rejection that leaves the tentative recipient in the list: the
\* fault C3 has to detect.
RcptHookNoPop(s, o) == Write(s, "550 hook")

\* handle_rcpt_to, "MTAHook filtering": the rejection of run_mta_hooks.
RcptHookReject(s, o) == Write(PopRcpt(s), "550 hook")

\* handle_rcpt_to, the filtering stage: Sieve, milters, MTA hooks, rewrite,
\* re-dedup.  It runs only with a resolved script, a rewrite rule or a
\* milter bound to the RCPT stage; without, verification follows at once.
\* o.script: "none" no script resolved, "accept", "modify" (accept with a
\* SetEnvelope modification of "to"), "reject", "discard".
RcptFilter(s, o) ==
  LET s1 == Consult(s, "script") IN
  IF o.script # "none" \/ s.has_rewrite \/ s.has_milter
  THEN LET s2 == IF o.script # "none" THEN ConsultAnswer(s1, "sieve", o.script) ELSE s1
           s3 == IF o.script = "modify" THEN ApplyEnvelopeTo(s2, "A@x") ELSE s2
       IN IF o.script = "reject"
          THEN Write(PopRcpt(s2), "550 sieve")
          ELSE LET s4 == Consult(s3, "milter") IN
               IF o.milter = "reject"
               THEN Write(PopRcpt(s4), "550 milter")
               ELSE LET s5 == Consult(s4, "hook") IN
                    IF o.hook = "reject"
                    THEN RcptHookReject(s5, o)
                    ELSE RcptDedup(RcptRewrite(s5, o), o)
  ELSE RcptVerify(s1, o)

\* The flag bits of a RCPT (smtp_proto): the four NOTIFY values of DSN,
\* and CONNEG, which is no DSN parameter.
RCPT_NOTIFY_NEVER == 2 ^ 0
RCPT_NOTIFY_SUCCESS == 2 ^ 1
RCPT_NOTIFY_FAILURE == 2 ^ 2
RCPT_NOTIFY_DELAY == 2 ^ 3
RCPT_CONNEG == 2 ^ 4

\* flags & bit != 0, for a bit that is a power of two.
HasFlag(flags, bit) == (flags \div bit) % 2 = 1

\* handle_rcpt_to, the mask of the DSN check (lines 36-38):
\* flags & (NOTIFY_DELAY | NOTIFY_NEVER | NOTIFY_SUCCESS | NOTIFY_FAILURE) != 0
NotifyRequested(flags) ==
  \E bit \in {RCPT_NOTIFY_DELAY, RCPT_NOTIFY_NEVER, RCPT_NOTIFY_SUCCESS,
               RCPT_NOTIFY_FAILURE} : HasFlag(flags, bit)

\* A first gate that lets every RCPT pass: the fault C9 has to detect.
MailNeverMissing(s) == FALSE

\* handle_rcpt_to, the first gate: self.data.mail_from.is_none()
MailMissing(s) == s.mail_from = None

\* A second gate that is off by one: the fault C4 has to detect.
TooManyOffByOne(s) == Len(s.rcpt_to) > s.rcpt_max

\* handle_rcpt_to, the second gate: rcpt_to.len() >= params.rcpt_max
TooManyRecipients(s) == Len(s.rcpt_to) >= s.rcpt_max

\* A first duplicate check that finds nothing: the fault C22 has to
\* detect.
NeverRecipient(s, rcpt) == FALSE

\* handle_rcpt_to, the first duplicate check (lines 57-59):
\* self.data.rcpt_to.contains(&rcpt)
AlreadyRecipient(s, rcpt) == Contains(s.rcpt_to, rcpt)

\* Session::handle_rcpt_to (built without the test_mode feature).
\* to: RcptTo{address, flags, orcpt}
handle_rcpt_to(s, to, o) ==
  IF MailMissing(s)
  THEN Write(s, "503 5.5.1 MAIL is required first.")
  ELSE IF TooManyRecipients(s)
  THEN Write(s, "451 4.5.3 Too many recipients.")
  ELSE IF (NotifyRequested(to.flags) \/ to.orcpt # "") /\ ~s.rcpt_dsn
  THEN Write(s, "501 5.5.4 DSN extension has been disabled.")
  ELSE LET rcpt == SessionAddress(to.address, to.flags, to.orcpt) IN
       IF AlreadyRecipient(s, rcpt)
       THEN Write(s, "250 2.1.5 OK")
       ELSE RcptFilter([s EXCEPT !.rcpt_to = Append(@, rcpt)], o)

\* ------------------------------------------------------ command parser

\* Request::parse of smtp_proto on one line (the terminator removed).
\* The kinds are the variants of Request and, for a line that does not
\* parse, of Error: "Unknown" stands for Error::UnknownCommand, and a line
\* ending in ? or ! for a malformed command of the kind named.
Req(kind, arg, n, flag) == [kind |-> kind, arg |-> arg, n |-> n, flag |-> flag]

Parse(line) ==
  IF Len(line) # 1 THEN Req("Unknown", "", 0, FALSE)
  ELSE CASE line[1] = "MAIL" -> Req("Mail", "s@z", 0, FALSE)
         [] line[1] = "MAILP" -> Req("Mail", "s@z", 1, FALSE)
         [] line[1] = "RCPTa" -> Req("Rcpt", "a@x", 0, FALSE)
         [] line[1] = "RCPTA" -> Req("Rcpt", "A@x", 0, FALSE)
         [] line[1] = "RCPTb" -> Req("Rcpt", "b@y", 0, FALSE)
         [] line[1] = "RCPTn" -> Req("Rcpt", "b@y", RCPT_NOTIFY_NEVER, FALSE)
         [] line[1] = "RCPTc" -> Req("Rcpt", "b@y", RCPT_CONNEG, FALSE)
         [] line[1] = "DATA" -> Req("Data", "", 0, FALSE)
         [] line[1] = "BDAT1" -> Req("Bdat", "", 1, FALSE)
         [] line[1] = "BDAT2" -> Req("Bdat", "", 2, FALSE)
         [] line[1] = "BDAT0L" -> Req("Bdat", "", 0, TRUE)
         [] line[1] = "BDAT1L" -> Req("Bdat", "", 1, TRUE)
         [] line[1] = "BDATMAX" -> Req("Bdat", "", WordMod - 1, FALSE)
         [] line[1] = "RSET" -> Req("Rset", "", 0, FALSE)
         [] line[1] = "QUIT" -> Req("Quit", "", 0, FALSE)
         [] line[1] = "NOOP" -> Req("Noop", "", 0, FALSE)
         [] line[1] = "STARTTLS" -> Req("StartTls", "", 0, FALSE)
         [] line[1] = "EHLO" -> Req("Ehlo", "h", 0, FALSE)
         [] line[1] = "HELO" -> Req("Helo", "h", 0, FALSE)
         [] line[1] = "LHLO" -> Req("Lhlo", "h", 0, FALSE)
         [] line[1] = "AUTH" -> Req("Auth", "", 0, FALSE)
         [] line[1] = "HELP" -> Req("Help", "", 0, FALSE)
         [] line[1] = "VRFY" -> Req("Vrfy", "a@x", 0, FALSE)
         [] line[1] = "EXPN" -> Req("Expn", "a@x", 0, FALSE)
         [] line[1] = "ETRN" -> Req("Etrn", "", 0, FALSE)
         [] line[1] = "ATRN" -> Req("Atrn", "", 0, FALSE)
         [] line[1] = "BURL" -> Req("Burl", "", 0, FALSE)
         [] line[1] = "MAIL?" -> Req("InvalidSenderAddress", "", 0, FALSE)
         [] line[1] = "RCPT?" -> Req("InvalidRecipientAddress", "", 0, FALSE)
         [] line[1] = "SYNTAX?" -> Req("SyntaxError", "g", 0, FALSE)
         [] line[1] = "PARAM?" -> Req("InvalidParameter", "p", 0, FALSE)
         [] line[1] = "PARAM!" -> Req("UnsupportedParameter", "p", 0, FALSE)
         [] line[1] = "RESP?" -> Req("InvalidResponse", "", 0, FALSE)
         [] OTHER -> Req("Unknown", "", 0, FALSE)

CommandBytes ==
  {"MAIL", "MAILP", "RCPTa", "RCPTA", "RCPTb", "RCPTn", "RCPTc", "DATA", "BDAT1",
   "BDAT2", "BDAT0L", "BDAT1L", "BDATMAX", "RSET", "QUIT", "NOOP", "STARTTLS",
   "EHLO", "HELO", "LHLO", "AUTH", "HELP", "VRFY", "EXPN", "ETRN", "ATRN", "BURL",
   "MAIL?", "RCPT?", "SYNTAX?", "PARAM?", "PARAM!", "RESP?"}

\* ------------------------------------------- handlers outside rcpt.rs

\* The handlers ingest calls that live in other files of the crate.  What
\* they decide is taken from the specification of the session; the texts
\* they answer with stand for whatever the handler writes.

\* Session::handle_mail_from: a second MAIL is refused; an accepted one
\* sets the sender and the parameters of the command.
handle_mail_from(s, req, o) ==
  IF s.mail_from # None
  THEN Write(s, "503 5.5.1 Multiple MAIL commands not allowed.")
  ELSE IF o.mail = "reject"
  THEN Write(s, "550 5.7.1 Sender rejected.")
  ELSE Write([s EXCEPT !.mail_from = Some(req.arg), !.priority = req.n,
                       !.delivery_by = req.n, !.future_release = req.n],
             "250 2.1.0 OK")

\* Session::handle_ehlo: an accepted greeting sets the HELO identity.
handle_ehlo(s, host, o) ==
  LET s1 == Consult(s, "handle_ehlo") IN
  IF o.ehlo = "reject"
  THEN Write(s1, "550 5.5.0 Invalid EHLO domain.")
  ELSE Write([s1 EXCEPT !.helo_domain = host], "250 greeting")

\* Session::can_send_data: a recipient is needed and the per-session
\* message quota must permit.  The pair is <<session, answer>>.
can_send_data(s, o) ==
  LET s1 == ConsultAnswer(s, "can_send_data",
                          IF Len(s.rcpt_to) > 0 /\ o.quota THEN "true" ELSE "false") IN
  IF Len(s1.rcpt_to) > 0
  THEN IF o.quota
       THEN <<s1, TRUE>>
       ELSE <<Write(s1, "452 4.4.5 Maximum number of messages per session exceeded."), FALSE>>
  ELSE <<Write(s1, "503 5.5.1 RCPT is required first."), FALSE>>

\* Session::queue_message: the envelope and the message go to the queue,
\* which answers with a reply (empty: disconnect).  The queue may take the
\* recipients and the message out of the session.  The entry of `queued`
\* keeps the reply, the driver state the message completed in, and whether
\* a 552 discarded bytes earlier in the transaction.
queue_message(s, o) ==
  LET s1 == [s EXCEPT !.queued = Append(@, [mail_from |-> s.mail_from,
                                             rcpt_to |-> s.rcpt_to,
                                             message |-> s.message,
                                             dropped |-> s.dropped,
                                             reply |-> o.queue,
                                             path |-> s.state.tag])]
  IN IF o.qtake THEN [s1 EXCEPT !.rcpt_to = <<>>, !.message = <<>>] ELSE s1

\* Session::handle_sasl_response: o.sasl "more" asks for a continuation
\* (Ok(true)); "ok" authenticates, "fail" writes the failure (Ok(false)).
handle_sasl_response(s, o) ==
  LET s1 == ConsultAnswer(s, "handle_sasl_response", o.sasl) IN
  CASE o.sasl = "more" -> <<Write(s1, "334 "), TRUE>>
    [] o.sasl = "ok" ->
         <<Write([s1 EXCEPT !.authenticated_as = "u"], "235 2.7.0 Authentication succeeded."), FALSE>>
    [] OTHER -> <<Write(s1, "535 5.7.8 Authentication credentials invalid."), FALSE>>

\* Session::auth_error
auth_error(s, response) == Write(s, response)

\* ------------------------------------------------- message completion

\* for _ in 0..n { self.write(bytes).await?; }
RECURSIVE WriteTimes(_, _, _)
WriteTimes(s, bytes, n) ==
  IF n = 0 THEN s ELSE WriteTimes(Write(s, bytes), bytes, n - 1)

\* A completion that answers once whatever the protocol: the fault C6 has
\* to detect.
RepliesOnce(s, message, num_rcpts) == Write(s, message)

\* ingest, the replies of a completed message (lines 223-229, 250-256):
\* once in SMTP, once per recipient counted before the hand-off in LMTP.
QueueReplies(s, message, num_rcpts) ==
  IF s.protocol = "Smtp"
  THEN Write(s, message)
  ELSE WriteTimes(s, message, num_rcpts)

\* A completion that carries on after an empty queue reply: the fault C14
\* has to detect.
QueueIgnoresEmptyReply(s, o) ==
  LET num_rcpts == Len(s.rcpt_to)
      s1 == queue_message(s, o)
      s2 == IF o.queue # "" THEN QueueReplies(s1, o.queue, num_rcpts) ELSE s1
  IN IF Running(s2) THEN reset(s2) ELSE s2

\* A completion that resets before it answers: the fault C15 has to detect.
ResetBeforeReply(s, o) ==
  LET num_rcpts == Len(s.rcpt_to)
      s1 == queue_message(s, o)
  IN IF o.queue # ""
     THEN QueueReplies(reset(s1), o.queue, num_rcpts)
     ELSE [s1 EXCEPT !.ret = "disconnect"]

\* ingest, the completion of a message (lines 220-235, 247-261): queue,
\* reply, reset.  The caller sets the next driver state.
QueueAndReply(s, o) ==
  LET num_rcpts == Len(s.rcpt_to)
      s1 == queue_message(s, o)
  IN IF o.queue # ""
     THEN LET s2 == QueueReplies(s1, o.queue, num_rcpts)
          IN IF Running(s2) THEN reset(s2) ELSE s2
     ELSE [s1 EXCEPT !.ret = "disconnect"]

\* ingest, State::Data after receiver.ingest returned true.
DataComplete(s, o) ==
  LET s1 == QueueAndReply(s, o)
  IN IF Running(s1) THEN [s1 EXCEPT !.state = StateDefault] ELSE s1

\* A completion that acknowledges and keeps a chunk can_send_data refused:
\* the fault C26 has to detect.
BdatKeepsRefused(s, o) ==
  LET c == can_send_data(s, o)
      s1 == c[1]
  IN IF ~Running(s1) THEN s1
     ELSE LET s2 == IF c[2] /\ s1.state.is_last
                    THEN QueueAndReply(s1, o)
                    ELSE Write(s1, "250 2.6.0 Chunk accepted.")
          IN IF Running(s2) THEN [s2 EXCEPT !.state = StateDefault] ELSE s2

\* ingest, State::Bdat after receiver.ingest returned true.
BdatComplete(s, o) ==
  LET c == can_send_data(s, o)
      s1 == c[1]
  IN IF ~Running(s1) THEN s1
     ELSE LET s2 == IF c[2]
                    THEN IF s1.state.is_last
                         THEN QueueAndReply(s1, o)
                         ELSE Write(s1, "250 2.6.0 Chunk accepted.")
                    ELSE [s1 EXCEPT !.message = <<>>]
          IN IF Running(s2) THEN [s2 EXCEPT !.state = StateDefault] ELSE s2

\* A completion of the drain that keeps the buffer: the fault C18 has to
\* detect.
TooLargeKeepsMessage(s) ==
  LET s1 == Write(s, "552 5.3.4 Message too big for system.")
  IN IF Running(s1) THEN [s1 EXCEPT !.state = StateDefault] ELSE s1

\* A completion of the drain that ends the transaction: the fault C31 has
\* to detect.
TooLargeResets(s) ==
  LET s1 == Write(reset(s), "552 5.3.4 Message too big for system.")
  IN IF Running(s1) THEN [s1 EXCEPT !.state = StateDefault] ELSE s1

\* ingest, State::DataTooLarge after receiver.ingest returned true
\* (lines 294-310): the buffer is replaced by an empty one, 552 is
\* written, the driver returns to Request.
TooLargeComplete(s) ==
  LET s1 == Write([s EXCEPT !.message = <<>>, !.dropped = @ \/ s.message # <<>>],
                  "552 5.3.4 Message too big for system.")
  IN IF Running(s1) THEN [s1 EXCEPT !.state = StateDefault] ELSE s1

\* ------------------------------------------------------------ receivers

\* Largest capacity a Vec<u8> takes (isize::MAX): with_capacity and reserve
\* panic with "capacity overflow" beyond it.
IsizeMax == (WordMod \div 2) - 1

\* DataReceiver::ingest on one byte: <<st', push, complete>>.  A dot that
\* follows CRLF is held back; CRLF after it ends the body.
DataRecv(st, b) ==
  CASE st = "dot" /\ b = "LF" -> <<"mid", FALSE, TRUE>>
    [] st = "crlf" /\ b = "." -> <<"dot", FALSE, FALSE>>
    [] b = "LF" -> <<"crlf", TRUE, FALSE>>
    [] OTHER -> <<"mid", TRUE, FALSE>>

\* The body without the CRLF that begins the terminator (buf.truncate).
Truncate(message) ==
  IF Len(message) > 0 /\ message[Len(message)] = "LF" THEN Pop(message) ELSE message

\* ------------------------------------------------------- the outer loop

\* A size gate that looks at the buffer alone: the fault C1 has to detect.
DataGateOnMessage(s) == Len(s.message) < s.max_message_size

\* ingest, the size gate at the entry of State::Data (line 218): the
\* buffer plus the length of the whole slice of this call.
DataGate(s) == Len(s.message) + s.blen < s.max_message_size

\* ingest, the arms of the outer loop that act before a byte is pulled:
\* the size gate of State::Data (lines 218, 239-241), and a Bdat or
\* DataTooLarge receiver with nothing left to read.
RECURSIVE Loop(_, _)
Loop(s, o) ==
  IF ~Running(s) THEN s
  ELSE CASE s.state.tag = "Data" ->
              IF DataGate(s) THEN s
              ELSE Loop([s EXCEPT !.state = StateTooLargeData(s.state)], o)
         [] s.state.tag = "Bdat" /\ s.state.bytes_left = 0 ->
              Loop(BdatComplete(s, o), o)
         [] s.state.tag = "DataTooLarge" /\ s.state.is_bdat /\ s.state.bytes_left = 0 ->
              Loop(TooLargeComplete(s), o)
         [] OTHER -> s

\* A DATA that does not ask can_send_data: the fault C10 has to detect.
RequestDataUnchecked(s, o) ==
  LET s2 == Write(s, "354 Start mail input; end with <CRLF>.<CRLF>")
  IN IF Running(s2)
     THEN Loop([s2 EXCEPT !.message = <<>>, !.state = StateData], o)
     ELSE s2

\* ingest, Request::Data (lines 48-56)
RequestData(s, o) ==
  LET c == can_send_data(s, o)
      s1 == c[1]
  IN IF Running(s1) /\ c[2]
     THEN LET s2 == Write(s1, "354 Start mail input; end with <CRLF>.<CRLF>")
          IN IF Running(s2)
             THEN Loop([s2 EXCEPT !.message = <<>>, !.state = StateData], o)
             ELSE s2
     ELSE s1

\* ingest, the size gate of Request::Bdat (lines 61-62).  The sum is a
\* usize sum: it wraps in a build without overflow checks.
BdatGate(s, chunk_size) ==
  (chunk_size + Len(s.message)) % WordMod < s.max_message_size

\* The sum of the gate does not fit the machine word.
AddOverflows(s, chunk_size) == chunk_size + Len(s.message) >= WordMod

\* ingest, Request::Bdat (lines 57-75).  An overflowing sum panics in a
\* build with overflow checks (o.overflow_checks) and wraps in one
\* without; a Vec cannot be given a capacity above isize::MAX, and
\* with_capacity and reserve panic when asked for more.
RequestBdat(s, chunk_size, is_last, o) ==
  IF o.overflow_checks /\ AddOverflows(s, chunk_size)
  THEN [s EXCEPT !.ret = "panic"]
  ELSE IF BdatGate(s, chunk_size)
  THEN IF (IF Len(s.message) = 0 THEN chunk_size ELSE chunk_size + Len(s.message)) > IsizeMax
       THEN [s EXCEPT !.ret = "panic"]
       ELSE Loop([s EXCEPT !.state = StateBdat(chunk_size, is_last)], o)
  ELSE Loop([s EXCEPT !.state = StateTooLargeBdat(chunk_size)], o)

\* An AUTH that does not look at authenticated_as: the fault C25 has to
\* detect.
AuthAgain(s, o) ==
  LET s1 == ConsultAnswer(s, "auth.mechanisms", o.mechs) IN
  IF o.mechs = "none" \/ ~s.auth_directory
  THEN Write(s1, "503 5.5.1 AUTH not allowed.")
  ELSE IF o.mechs # "unsupported"
  THEN LET c == handle_sasl_response(s1, o)
       IN IF Running(c[1]) /\ c[2] THEN [c[1] EXCEPT !.state = StateSasl] ELSE c[1]
  ELSE Write(s1, "554 5.7.8 Authentication mechanism not supported.")

\* ingest, Request::Auth (lines 76-114).  o.mechs: "none" the configured
\* mechanisms evaluate to 0, "unsupported" no token for mechanism & auth.
RequestAuth(s, o) ==
  LET s1 == ConsultAnswer(s, "auth.mechanisms", o.mechs) IN
  IF o.mechs = "none" \/ ~s.auth_directory
  THEN Write(s1, "503 5.5.1 AUTH not allowed.")
  ELSE IF s.authenticated_as # ""
  THEN Write(s1, "503 5.5.1 Already authenticated.")
  ELSE IF o.mechs # "unsupported"
  THEN LET c == handle_sasl_response(s1, o)
       IN IF Running(c[1]) /\ c[2] THEN [c[1] EXCEPT !.state = StateSasl] ELSE c[1]
  ELSE Write(s1, "554 5.7.8 Authentication mechanism not supported.")

\* A STARTTLS that answers and goes on reading the slice: the fault C11 has
\* to detect.
StartTlsNoReturn(s) == Write(s, "220 2.0.0 Ready to start TLS.")

\* A handover that returns without refilling the slot: the fault C8 has to
\* detect.
StartTlsKeepsSlot(s) ==
  LET s1 == Write(s, "220 2.0.0 Ready to start TLS.")
  IN IF Running(s1) THEN [s1 EXCEPT !.ret = "tls"] ELSE s1

\* ingest, Request::StartTls, the handover (lines 127-133)
StartTlsHandover(s) ==
  LET s1 == Write(s, "220 2.0.0 Ready to start TLS.")
  IN IF Running(s1) THEN [s1 EXCEPT !.slot = StateDefault, !.ret = "tls"] ELSE s1

\* ingest, Request::StartTls (lines 124-140)
RequestStartTls(s) ==
  IF ~s.stream_tls
  THEN IF s.acceptor_tls
       THEN StartTlsHandover(s)
       ELSE Write(s, "502 5.7.0 TLS not available.")
  ELSE Write(s, "504 5.7.4 Already in TLS mode.")

\* A QUIT that answers and goes on reading: the fault C20 has to detect.
QuitContinues(s) == Write(s, "221 2.0.0 Bye.")

\* ingest, Request::Quit (lines 145-148)
RequestQuit(s) ==
  LET s1 == Write(s, "221 2.0.0 Bye.")
  IN IF Running(s1) THEN [s1 EXCEPT !.ret = "disconnect"] ELSE s1

\* ingest, Request::Ehlo (lines 41-47)
RequestEhlo(s, host, o) ==
  IF s.protocol = "Smtp" THEN handle_ehlo(s, host, o)
  ELSE Write(s, "500 5.5.1 Invalid command.")

\* ingest, Request::Helo (lines 155-161)
RequestHelo(s, host, o) ==
  IF s.protocol = "Smtp" THEN handle_ehlo(s, host, o)
  ELSE Write(s, "500 5.5.1 Invalid command.")

\* An LHLO that greets whatever the protocol: the fault C21 has to detect.
LhloUngated(s, host, o) == handle_ehlo(s, host, o)

\* ingest, Request::Lhlo (lines 162-168)
RequestLhlo(s, host, o) ==
  IF s.protocol = "Lmtp" THEN handle_ehlo(s, host, o)
  ELSE Write(s, "502 5.5.1 Invalid command.")

\* Session::handle_vrfy and Session::handle_expn: the directory is asked
\* and one response is written; the session data stay as they are.
handle_vrfy(s, value, o) == Write(Consult(s, "vrfy"), "250 vrfy")

handle_expn(s, value, o) == Write(Consult(s, "expn"), "250 expn")

\* ingest, the parse errors that are answered (lines 174-209); the
\* grammar and the parameter named in the text are those of the line.
ParseError(s, err) ==
  CASE err.kind = "InvalidSenderAddress" ->
         Write(s, "501 5.1.8 Bad sender's system address.")
    [] err.kind = "InvalidRecipientAddress" ->
         Write(s, "501 5.1.3 Bad destination mailbox address syntax.")
    [] err.kind = "SyntaxError" ->
         Write(s, "501 5.5.2 Syntax error, expected: g")
    [] err.kind = "InvalidParameter" ->
         Write(s, "501 5.5.4 Invalid parameter \"p\".")
    [] err.kind = "UnsupportedParameter" ->
         Write(s, "504 5.5.4 Unsupported parameter \"p\".")
    [] OTHER -> Write(s, "500 5.5.1 Invalid command.")

\* ingest, the dispatch of one parsed request (lines 34-173) and of a
\* parse error (lines 174-214).
Dispatch(s, req, o) ==
  CASE req.kind = "Rcpt" ->
         handle_rcpt_to(s, [address |-> req.arg, flags |-> req.n, orcpt |-> ""], o)
    [] req.kind = "Mail" -> handle_mail_from(s, req, o)
    [] req.kind = "Ehlo" -> RequestEhlo(s, req.arg, o)
    [] req.kind = "Helo" -> RequestHelo(s, req.arg, o)
    [] req.kind = "Lhlo" -> RequestLhlo(s, req.arg, o)
    [] req.kind = "Data" -> RequestData(s, o)
    [] req.kind = "Bdat" -> RequestBdat(s, req.n, req.flag, o)
    [] req.kind = "Auth" -> RequestAuth(s, o)
    [] req.kind = "Noop" -> Write(s, "250 2.0.0 OK")
    [] req.kind = "StartTls" -> RequestStartTls(s)
    [] req.kind = "Rset" -> Write(reset(s), "250 2.0.0 OK")
    [] req.kind = "Quit" -> RequestQuit(s)
    [] req.kind = "Vrfy" -> handle_vrfy(s, req.arg, o)
    [] req.kind = "Expn" -> handle_expn(s, req.arg, o)
    [] req.kind = "Help" ->
         Write(s, "250 2.0.0 Help can be found at https://stalw.art/docs/")
    [] req.kind \in {"Etrn", "Atrn", "Burl"} ->
         Write(s, "502 5.5.1 Command not implemented.")
    [] OTHER -> ParseError(s, req)

\* ingest, State::Request on one byte: the receiver gathers a line, parses
\* it at the terminator, and gives up at MAX_LINE_LENGTH.
RequestArm(s, b, o) ==
  IF b = "LF"
  THEN Dispatch([s EXCEPT !.state.buf = <<>>, !.req = Parse(s.state.buf).kind],
                Parse(s.state.buf), o)
  ELSE IF Len(s.state.buf) + 1 >= MaxLine
  THEN [s EXCEPT !.state = StateRequestTooLarge]
  ELSE [s EXCEPT !.state.buf = Append(@, b)]

\* ingest, State::Data on one byte (lines 219-238)
DataArm(s, b, o) ==
  LET r == DataRecv(s.state.st, b)
      s1 == [s EXCEPT !.state.st = r[1],
                      !.message = IF r[2] THEN Append(@, b) ELSE @]
  IN IF r[3]
     THEN Loop(DataComplete([s1 EXCEPT !.message = Truncate(@)], o), o)
     ELSE s1

\* ingest, State::Bdat on one byte (lines 243-272)
BdatArm(s, b, o) ==
  Loop([s EXCEPT !.message = Append(@, b), !.state.bytes_left = @ - 1], o)

\* A Sasl arm that hands over a line of any length: the fault C27 has to
\* detect.
SaslUnbounded(s, b, o) ==
  IF b = "LF"
  THEN LET c == handle_sasl_response(s, o)
       IN IF ~Running(c[1]) THEN c[1]
          ELSE IF c[2] THEN [c[1] EXCEPT !.state.buf = <<>>]
          ELSE [c[1] EXCEPT !.state = StateDefault]
  ELSE IF Len(s.state.buf) < MaxLine
  THEN [s EXCEPT !.state.buf = Append(@, b)]
  ELSE s

\* ingest, State::Sasl on one byte (lines 273-293)
SaslArm(s, b, o) ==
  IF b = "LF"
  THEN IF Len(s.state.buf) < MaxLine
       THEN LET c == handle_sasl_response(s, o)
            IN IF ~Running(c[1]) THEN c[1]
               ELSE IF c[2] THEN [c[1] EXCEPT !.state.buf = <<>>]
               ELSE [c[1] EXCEPT !.state = StateDefault]
       ELSE LET s1 == auth_error(s, "500 5.5.6 Authentication Exchange line is too long.")
            IN IF Running(s1) THEN [s1 EXCEPT !.state = StateDefault] ELSE s1
  ELSE IF Len(s.state.buf) < MaxLine
  THEN [s EXCEPT !.state.buf = Append(@, b)]
  ELSE s

\* ingest, State::DataTooLarge on one byte (lines 294-310)
DataTooLargeArm(s, b, o) ==
  IF s.state.is_bdat
  THEN Loop([s EXCEPT !.state.bytes_left = @ - 1], o)
  ELSE LET r == DataRecv(s.state.st, b)
       IN IF r[3] THEN Loop(TooLargeComplete(s), o)
          ELSE [s EXCEPT !.state.st = r[1]]

\* A drain of the long line that ends without an answer: the fault C19 has
\* to detect.
RequestTooLargeSilent(s, b) ==
  IF b = "LF" THEN [s EXCEPT !.state = StateDefault] ELSE s

\* ingest, State::RequestTooLarge on one byte (lines 311-318)
RequestTooLargeArm(s, b) ==
  IF b = "LF"
  THEN LET s1 == Write(s, "554 5.3.4 Line is too long.")
       IN IF Running(s1) THEN [s1 EXCEPT !.state = StateDefault] ELSE s1
  ELSE s

\* ingest, the way out: with the slice used up the loop breaks and the
\* state goes back into the slot (lines 322-324); an early return leaves
\* the slot as it is and drops the iterator with `left` bytes unread.
\* A transport failure that no write of the action met did not happen:
\* `wf` is 0 then.
Finish(s) ==
  IF Running(s)
  THEN IF s.left = 0
       THEN [s EXCEPT !.slot = s.state, !.state = StateNone, !.ret = "continue",
                      !.wf = 0]
       ELSE [s EXCEPT !.wf = 0]
  ELSE [s EXCEPT !.state = StateNone]

\* ingest, the entry (lines 27-28): the state is taken out of the slot.
Begin(s, n, o) ==
  Finish(Loop([s EXCEPT !.state = s.slot, !.slot = StateNone, !.blen = n,
                        !.left = n, !.ret = "run", !.out = <<>>, !.wf = o.wf,
                        !.req = "", !.consulted = <<>>, !.queued = <<>>], o))

\* One byte pulled by the receiver of the current state.
Pull(s, b, o) ==
  LET s0 == [s EXCEPT !.left = @ - 1, !.out = <<>>, !.wf = o.wf,
                      !.req = "", !.consulted = <<>>, !.queued = <<>>]
  IN Finish(CASE s.state.tag = "Request" -> RequestArm(s0, b, o)
              [] s.state.tag = "Data" -> DataArm(s0, b, o)
              [] s.state.tag = "Bdat" -> BdatArm(s0, b, o)
              [] s.state.tag = "Sasl" -> SaslArm(s0, b, o)
              [] s.state.tag = "DataTooLarge" -> DataTooLargeArm(s0, b, o)
              [] OTHER -> RequestTooLargeArm(s0, b))

\* ---------------------------------------------------------- environment

\* The answers of the collaborators to one action.
\*   wf      the write at which the transport fails (0: none)
\*   mail, ehlo      policy of handle_mail_from and handle_ehlo
\*   quota   can_send_data: the message quota permits
\*   queue   the reply of queue_message ("" asks for a disconnect)
\*   qtake   queue_message took the recipients and the message
\*   mechs, sasl     eval_if(auth.mechanisms) and the SASL exchange
\*   script, milter, hook, rewrite, dir, relay, allowed: the RCPT stages
\*   overflow_checks: the build panics on an overflowing usize sum
O0 ==
  [wf |-> 0, mail |-> "ok", ehlo |-> "ok", quota |-> TRUE,
   queue |-> "250 2.0.0 Message queued", qtake |-> TRUE,
   mechs |-> "ok", sasl |-> "ok",
   script |-> "none", milter |-> "ok", hook |-> "ok", rewrite |-> "none",
   dir |-> "local_ok", relay |-> "true", allowed |-> TRUE,
   overflow_checks |-> FALSE]

WriteFails == {0, 1, 2}

\* How many stages of the recipient pipeline answer with a refusal.
Refusals(o) ==
  Cardinality({k \in {"script", "milter", "hook"} : o[k] = "reject"})
  + (IF o.dir \in {"domain_err", "local_absent", "local_err"} THEN 1 ELSE 0)
  + (IF o.relay # "true" THEN 1 ELSE 0)
  + (IF o.allowed THEN 0 ELSE 1)

\* An answer that is never asked for is left at its default: the stages
\* behind a rejection of the script, the milters or the hooks, and the
\* relay predicate when the directory knows the domain as local or fails.
Unasked(o) ==
  /\ (o.script = "reject" \/ o.milter = "reject" \/ o.hook = "reject")
       => o.rewrite = "none" /\ o.dir = "local_ok"
  /\ o.dir \notin {"none", "remote"} => o.relay = "true"

\* The answers to one RCPT.  The command ends at the first refusal, so
\* answers with a second refusal behind the first are left out.
RcptAnswers ==
  {o \in {[O0 EXCEPT !.script = sc, !.milter = mi, !.hook = ho, !.rewrite = rw,
                     !.dir = di, !.relay = re, !.allowed = al, !.wf = w] :
            sc \in {"none", "accept", "modify", "reject"},
            mi \in {"ok", "reject"}, ho \in {"ok", "reject"},
            rw \in {"none", "A@x", "noat"},
            di \in {"none", "domain_err", "local_ok", "local_absent", "local_err", "remote"},
            re \in {"true", "false", "none"}, al \in BOOLEAN, w \in WriteFails} :
     Refusals(o) <= 1 /\ Unasked(o)}

QueueAnswers ==
  {[O0 EXCEPT !.quota = qu, !.queue = q, !.qtake = k, !.wf = w] :
     qu \in BOOLEAN, q \in {"250 2.0.0 Message queued", ""}, k \in BOOLEAN,
     w \in WriteFails}

PlainAnswers == {[O0 EXCEPT !.wf = w] : w \in {0, 1}}

\* The answers to a BDAT: those of a chunk that completes at once, and
\* the build with overflow checks, where an overflowing sum asks nothing.
BdatAnswers ==
  QueueAnswers \cup {[O0 EXCEPT !.overflow_checks = TRUE]}

MailAnswers ==
  {[O0 EXCEPT !.mail = m, !.ehlo = m, !.wf = w] : m \in {"ok", "reject"}, w \in {0, 1}}

SaslAnswers ==
  {[O0 EXCEPT !.mechs = m, !.sasl = a, !.wf = w] :
     m \in {"ok", "none", "unsupported"}, a \in {"ok", "more", "fail"}, w \in {0, 1}}

\* The answers that can matter to the request on the line `buf`.
RequestAnswers(buf) ==
  LET kind == Parse(buf).kind IN
  CASE kind = "Rcpt" -> RcptAnswers
    [] kind \in {"Mail", "Ehlo", "Helo", "Lhlo"} -> MailAnswers
    [] kind = "Data" -> QueueAnswers
    [] kind = "Bdat" -> BdatAnswers
    [] kind = "Auth" -> SaslAnswers
    [] OTHER -> PlainAnswers

\* The answers that can matter when session s pulls byte b.  Without a
\* script, a rewrite rule or a milter the filtering stage of RCPT asks
\* nothing.
Answers(s, b) ==
  CASE s.state.tag = "Request" ->
         IF b = "LF"
         THEN {o \in RequestAnswers(s.state.buf) :
                 (o.script = "none" /\ ~s.has_rewrite /\ ~s.has_milter)
                    => o.milter = "ok" /\ o.hook = "ok" /\ o.rewrite = "none"}
         ELSE {O0}
    [] s.state.tag = "Data" ->
         IF s.state.st = "dot" /\ b = "LF" THEN QueueAnswers ELSE {O0}
    [] s.state.tag = "Bdat" ->
         IF s.state.bytes_left = 1 THEN QueueAnswers ELSE {O0}
    [] s.state.tag = "Sasl" ->
         IF b = "LF" THEN {o \in SaslAnswers : o.mechs = "ok"} ELSE {O0}
    [] OTHER -> PlainAnswers

\* The bytes of a body, and of a line that is no command.
BodyBytes == {"x", ".", "LF"}
LineBytes == {"x", "LF"}

\* The bytes a client with the commands `vocab` sends to the request
\* receiver: a command, the terminator, or an octet that is no command.
RequestBytes(s, vocab) ==
  IF s.state.buf = <<>> THEN vocab \cup LineBytes ELSE LineBytes

\* The connections explored: the session the listener creates and the
\* commands its client uses.
Connection(vocab, s) == [vocab |-> vocab, session |-> s]

Connections ==
  { Connection({"MAIL", "RCPTa", "RCPTA", "RCPTb", "DATA", "RSET"},
               NewSession("Smtp", MaxRcpt, MaxSize, TRUE, MaxErrors, TRUE)),
    Connection({"MAIL", "RCPTa", "RCPTb", "DATA", "BDAT1L"},
               NewSession("Lmtp", MaxRcpt, MaxSize, TRUE, MaxErrors, FALSE)),
    Connection({"MAIL", "RCPTa", "BDAT1", "BDAT2", "BDAT0L", "BDAT1L", "BDATMAX", "DATA"},
               NewSession("Smtp", MaxRcpt, MaxSize, TRUE, MaxErrors, FALSE)),
    Connection({"EHLO", "HELO", "LHLO", "STARTTLS", "AUTH", "NOOP", "QUIT", "MAILP",
                "RCPTn", "RCPTa", "RSET", "DATA"},
               NewSession("Smtp", 1, MaxSize, FALSE, MaxErrors, FALSE)),
    Connection({"MAIL", "RCPTa", "RCPTb", "RCPTn"},
               NewSession("Smtp", 0, MaxSize, FALSE, MaxErrors, FALSE)),
    Connection({"MAIL", "RCPTa", "NOOP"},
               NewSession("Smtp", MaxRcpt, MaxSize, TRUE, 0, FALSE)),
    Connection({"EHLO", "HELO", "LHLO", "MAIL", "RCPTa"},
               NewSession("Lmtp", MaxRcpt, MaxSize, TRUE, MaxErrors, FALSE)),
    Connection({"AUTH", "NOOP"},
               [NewSession("Smtp", MaxRcpt, MaxSize, TRUE, MaxErrors, FALSE)
                  EXCEPT !.auth_directory = FALSE]),
    Connection({"MAIL", "RCPTn", "RCPTc"},
               NewSession("Smtp", MaxRcpt, MaxSize, FALSE, MaxErrors, FALSE)),
    Connection({"HELP", "VRFY", "EXPN", "ETRN", "ATRN", "BURL", "MAIL?", "RCPT?",
                "SYNTAX?", "PARAM?", "PARAM!", "RESP?"},
               NewSession("Smtp", MaxRcpt, MaxSize, TRUE, MaxErrors, FALSE)) }

\* ------------------------------------------------------- specification

VARIABLES session, vocab, one, todo, replies

vars == <<session, vocab, one, todo, replies>>

Init ==
  /\ \E c \in Connections : session = c.session /\ vocab = c.vocab
  /\ one = session
  /\ todo = 0
  /\ replies = <<>>

\* The listener read 1..MaxSlice bytes and calls ingest.
Ingest ==
  /\ session.ret = "continue"
  /\ \E n \in 1..MaxSlice : session' = Begin(session, n, O0)
  /\ UNCHANGED <<vocab, one, todo, replies>>

PullRequest ==
  /\ Running(session) /\ session.state.tag = "Request"
  /\ \E b \in RequestBytes(session, vocab) : \E o \in Answers(session, b) :
       session' = Pull(session, b, o)
  /\ UNCHANGED <<vocab, one, todo, replies>>

PullData ==
  /\ Running(session) /\ session.state.tag = "Data"
  /\ \E b \in BodyBytes : \E o \in Answers(session, b) :
       session' = Pull(session, b, o)
  /\ UNCHANGED <<vocab, one, todo, replies>>

PullBdat ==
  /\ Running(session) /\ session.state.tag = "Bdat"
  /\ \E b \in BodyBytes : \E o \in Answers(session, b) :
       session' = Pull(session, b, o)
  /\ UNCHANGED <<vocab, one, todo, replies>>

PullSasl ==
  /\ Running(session) /\ session.state.tag = "Sasl"
  /\ \E b \in LineBytes : \E o \in Answers(session, b) :
       session' = Pull(session, b, o)
  /\ UNCHANGED <<vocab, one, todo, replies>>

PullDataTooLarge ==
  /\ Running(session) /\ session.state.tag = "DataTooLarge"
  /\ \E b \in BodyBytes : \E o \in Answers(session, b) :
       session' = Pull(session, b, o)
  /\ UNCHANGED <<vocab, one, todo, replies>>

PullRequestTooLarge ==
  /\ Running(session) /\ session.state.tag = "RequestTooLarge"
  /\ \E b \in LineBytes : \E o \in Answers(session, b) :
       session' = Pull(session, b, o)
  /\ UNCHANGED <<vocab, one, todo, replies>>

\* The listener, handed the stream by ingest, completes the TLS handshake
\* and goes on reading.
TlsHandshake ==
  /\ session.ret = "tls"
  /\ session' = [session EXCEPT !.stream_tls = TRUE, !.ret = "continue",
                                !.out = <<>>, !.req = "", !.consulted = <<>>,
                                !.queued = <<>>]
  /\ UNCHANGED <<vocab, one, todo, replies>>

Next ==
  \/ Ingest
  \/ PullRequest
  \/ PullData
  \/ PullBdat
  \/ PullSasl
  \/ PullDataTooLarge
  \/ PullRequestTooLarge
  \/ TlsHandshake

Spec == Init /\ [][Next]_vars

\* ------------------------------------------- pipelined against split

\* The driver state of a session: the local inside ingest, the slot outside.
DriverState(s) == IF Running(s) THEN s.state ELSE s.slot

\* The envelope of a session.
Envelope(s) ==
  [mail_from |-> s.mail_from, rcpt_to |-> s.rcpt_to, message |-> s.message,
   priority |-> s.priority, delivery_by |-> s.delivery_by,
   future_release |-> s.future_release]

\* The answers of collaborators that answer the same way to the same
\* question, over a transport that does not fail.
FixedAnswers(s, b) == {o \in Answers(s, b) : o.wf = 0}

\* The connections of the comparison: a message by DATA, a message by
\* BDAT to an LMTP session.
PipelineConnections ==
  { Connection({"MAIL", "RCPTa", "DATA"},
               NewSession("Smtp", MaxRcpt, MaxSize, TRUE, MaxErrors, FALSE)),
    Connection({"MAIL", "RCPTa", "BDAT1L"},
               NewSession("Lmtp", MaxRcpt, MaxSize, TRUE, MaxErrors, FALSE)) }

\* Two sessions of the same connection read the same stream of `todo`
\* bytes: `one` in a single ingest call, `session` in calls of 1..MaxSlice
\* bytes.  replies[1] and replies[2] are what each has written so far.
InitPipeline ==
  /\ \E c \in PipelineConnections : session = c.session /\ vocab = c.vocab
  /\ todo \in 1..MaxStream
  /\ one = Begin(session, todo, O0)
  /\ replies = << <<>>, <<>> >>

\* The listener of the split session calls ingest with the next bytes.
SplitIngest ==
  /\ session.ret = "continue" /\ todo > 0
  /\ \E n \in 1..MaxSlice : n <= todo /\ session' = Begin(session, n, O0)
  /\ UNCHANGED <<vocab, one, todo, replies>>

\* Both sessions pull the next byte of the stream and get the same answers.
FeedBoth ==
  /\ Running(session) /\ Running(one)
  /\ \E b \in (IF session.state.tag = "Request" THEN RequestBytes(session, vocab)
               ELSE BodyBytes) :
       \E o \in FixedAnswers(session, b) :
         /\ session' = Pull(session, b, o)
         /\ one' = Pull(one, b, o)
         /\ replies' = <<replies[1] \o session'.out, replies[2] \o one'.out>>
  /\ todo' = todo - 1
  /\ UNCHANGED vocab

NextPipeline ==
  \/ SplitIngest
  \/ FeedBoth

SpecPipeline == InitPipeline /\ [][NextPipeline]_vars

\* ----------------------------------------------------------- properties

\* The stages the current action consulted.
Stages(s) == {s.consulted[i].stage : i \in 1..Len(s.consulted)}

\* No two entries equal under the equality of SessionAddress.
NoDuplicates(rcpts) ==
  \A i, j \in 1..Len(rcpts) : i # j => ~AddrEq(rcpts[i], rcpts[j])

\* n copies of a response.
Copies(r, n) == [i \in 1..n |-> r]

\* The current action completed a message and every reply was written.
QueuedAndReplied(s) ==
  s.queued # <<>> /\ s.queued[1].reply # "" /\ s.ret # "disconnect"

\* C1: in every reachable state the message buffer holds at most
\* max_message_size octets, and so does every message handed to the queue.
C1_MessageWithinLimit ==
  /\ Len(session.message) <= session.max_message_size
  /\ \A i \in 1..Len(session.queued) :
       Len(session.queued[i].message) <= session.max_message_size

\* C1, its case: a message that fills the buffer up to the last octet the
\* gate lets in is handed to the queue.
C1_Witness ==
  /\ session.queued # <<>>
  /\ Len(session.queued[1].message) = session.max_message_size - 1

\* C2: the recipient list never holds two entries with the same lowercased
\* address, whatever the RCPT commands and the rewrites applied to them.
C2_NoDuplicateRecipients == NoDuplicates(session.rcpt_to)

\* C2, its case: a RCPT whose rewritten address collides with an accepted
\* recipient is collapsed with 250 before the address is verified.
C2_Witness ==
  /\ session.req = "Rcpt"
  /\ "rewrite" \in Stages(session) /\ "directory" \notin Stages(session)
  /\ session.out = <<"250 2.1.5 OK">>
  /\ Len(session.rcpt_to) >= 1

\* The RCPT of the current action was not accepted: it stopped at a gate or
\* at the first duplicate check (nothing consulted), or it was answered with
\* something other than the 250 that follows the rate limit.
RcptNotAccepted(s) ==
  /\ s.req = "Rcpt"
  /\ \/ s.consulted = <<>>
     \/ /\ s.out # <<>>
        /\ ~(s.out[1] = "250 2.1.5 OK" /\ "is_allowed" \in Stages(s))

\* C3: a RCPT that is rejected at any stage, or collapsed as a duplicate,
\* leaves the recipient list as it was before the command: same length,
\* same entries, same order.
C3_RejectedRcptKeepsList ==
  [][RcptNotAccepted(session') => session'.rcpt_to = session.rcpt_to]_vars

\* C3, its case: the MTA hook rejects a RCPT issued after a recipient was
\* accepted.
C3_Witness ==
  /\ session.req = "Rcpt"
  /\ session.out = <<"550 hook">>
  /\ Len(session.rcpt_to) >= 1

\* What a RCPT over the limit does: 451 (or the write fails), nothing
\* appended, nothing consulted.
TooManyAnswered(s, t) ==
  /\ t.rcpt_to = s.rcpt_to
  /\ t.consulted = <<>>
  /\ \/ t.out = <<"451 4.5.3 Too many recipients.">>
     \/ t.out = <<>> /\ t.ret = "disconnect"

\* C4 as stated: the list never exceeds rcpt_max, and every RCPT issued
\* with rcpt_max recipients or more in the list is answered 451.
C4_AsStated ==
  /\ [](Len(session.rcpt_to) <= session.rcpt_max)
  /\ [][(session'.req = "Rcpt" /\ Len(session.rcpt_to) >= session.rcpt_max)
          => TooManyAnswered(session, session')]_vars

\* C4: the list never exceeds rcpt_max, and a RCPT issued after MAIL with
\* rcpt_max recipients or more in the list is answered 451 before anything
\* is appended or consulted.  (Without MAIL the first gate answers 503.)
C4_RecipientLimit ==
  /\ [](Len(session.rcpt_to) <= session.rcpt_max)
  /\ [][(session'.req = "Rcpt" /\ session.mail_from # None
           /\ Len(session.rcpt_to) >= session.rcpt_max)
          => TooManyAnswered(session, session')]_vars

\* C4, its case: a full list, and one more RCPT answered 451.
C4_Witness ==
  /\ session.req = "Rcpt"
  /\ session.out = <<"451 4.5.3 Too many recipients.">>
  /\ session.rcpt_max > 0
  /\ Len(session.rcpt_to) = session.rcpt_max

\* The transaction of t is back at its initial values and what lies outside
\* the transaction is as in s.
TransactionCleared(s, t) ==
  /\ t.mail_from = None /\ t.rcpt_to = <<>> /\ t.message = <<>>
  /\ t.priority = 0 /\ t.delivery_by = 0 /\ t.future_release = 0
  /\ t.session_id = s.session_id
  /\ t.helo_domain = s.helo_domain
  /\ t.authenticated_as = s.authenticated_as
  /\ t.rcpt_errors = s.rcpt_errors

\* C5: after RSET, and after a message was queued with a non-empty reply,
\* the sender, the recipients, the message and the three delivery
\* parameters are cleared while session_id, helo_domain, authenticated_as
\* and rcpt_errors keep their values.
C5_ResetClearsTransaction ==
  [][(session'.req = "Rset" \/ QueuedAndReplied(session'))
       => TransactionCleared(session, session')]_vars

\* C5, its case: a message is queued in a session that has greeted, has
\* authenticated and has counted a recipient error.
C5_Witness ==
  /\ QueuedAndReplied(session)
  /\ session.helo_domain = "h"
  /\ session.authenticated_as = "u"
  /\ session.rcpt_errors > 0

\* C6: a message completed with k recipients and a non-empty queue reply r
\* is answered with k copies of r in LMTP and with one copy in SMTP, on the
\* DATA path and on the BDAT path.
C6_RepliesPerRecipient ==
  QueuedAndReplied(session) =>
    session.out = Copies(session.queued[1].reply,
                         IF session.protocol = "Smtp" THEN 1
                         ELSE Len(session.queued[1].rcpt_to))

\* C6, its case: an LMTP message for two recipients completes by BDAT LAST.
C6_Witness ==
  /\ QueuedAndReplied(session)
  /\ session.protocol = "Lmtp"
  /\ session.queued[1].path = "Bdat"
  /\ Len(session.queued[1].rcpt_to) = 2
  /\ Len(session.out) = 2

\* Both sessions have read the whole stream and returned to their listener.
BothDone == todo = 0 /\ session.ret = "continue" /\ one.ret = "continue"

\* C7: the whole stream in one ingest call gives the same responses in the
\* same order, the same envelope and the same driver state as the same
\* stream split into several calls.
C7_SplitMakesNoDifference ==
  BothDone =>
    /\ replies[1] = replies[2]
    /\ Envelope(session) = Envelope(one)
    /\ session.slot = one.slot

\* C7, its case: both sessions read the same stream to its end and wrote
\* different responses.
C7_ResponsesDiffer == BothDone /\ replies[1] # replies[2]

\* C8: whenever ingest has returned without a disconnect (continue, or the
\* STARTTLS handover) the slot holds one of the six live driver states.
C8_SlotIsLive ==
  session.ret \in {"continue", "tls"} => session.slot.tag \in LiveTags

\* C8, its case: ingest returned from inside the loop for the handover.
C8_Witness == session.ret = "tls" /\ session.slot.tag = "Request"

\* What a RCPT without MAIL does.
MailRequiredAnswered(s, t) ==
  /\ t.rcpt_to = s.rcpt_to
  /\ t.consulted = <<>>
  /\ t.rcpt_errors = s.rcpt_errors
  /\ \/ /\ t.out = <<"503 5.5.1 MAIL is required first.">>
        /\ t.ret \in {"run", "continue"}
        /\ DriverState(t).tag = "Request"
     \/ t.out = <<>> /\ t.ret = "disconnect"

\* C9: a RCPT without MAIL is answered 503 "MAIL is required first", appends
\* nothing, consults nothing, leaves rcpt_errors alone and stays in Request;
\* and the recipient list is non-empty only while the sender is set.
C9_MailBeforeRcpt ==
  /\ [](session.rcpt_to # <<>> => session.mail_from # None)
  /\ [][(session'.req = "Rcpt" /\ session.mail_from = None)
          => MailRequiredAnswered(session, session')]_vars

\* C9, its case: a RCPT without MAIL was answered.
C9_Witness ==
  /\ session.req = "Rcpt"
  /\ session.mail_from = None
  /\ session.out = <<"503 5.5.1 MAIL is required first.">>

\* C10 as stated: the driver is in Data or in Bdat only with the sender set
\* and a recipient in the list, and nothing is queued without them.
C10_AsStated ==
  /\ DriverState(session).tag \in {"Data", "Bdat"}
       => session.mail_from # None /\ session.rcpt_to # <<>>
  /\ \A i \in 1..Len(session.queued) :
       session.queued[i].mail_from # None /\ session.queued[i].rcpt_to # <<>>

\* A chunk that completes without a recipient is dropped: can_send_data
\* refuses, the chunk is not acknowledged, the buffer is emptied, nothing is
\* queued and the driver is back in Request.
ChunkDropped(s, t) ==
  /\ "can_send_data" \in Stages(t)
  /\ Len(t.out) = 1 /\ t.out[1] # "250 2.6.0 Chunk accepted."
  /\ t.message = <<>>
  /\ t.queued = <<>>
  /\ DriverState(t).tag = "Request"

\* C10: the driver is in Data only with the sender set and a recipient in
\* the list, and only then is a message queued.  BDAT is not checked when
\* it is issued: the chunk is read whatever the envelope, and when it
\* completes without a recipient can_send_data refuses and it is dropped.
C10_DataNeedsRecipient ==
  /\ [](DriverState(session).tag = "Data"
          => session.mail_from # None /\ session.rcpt_to # <<>>)
  /\ [](\A i \in 1..Len(session.queued) :
          session.queued[i].mail_from # None /\ session.queued[i].rcpt_to # <<>>)
  /\ [][(Running(session) /\ session.state.tag = "Bdat" /\ session.rcpt_to = <<>>
           /\ session'.ret # "disconnect" /\ DriverState(session').tag # "Bdat")
          => ChunkDropped(session, session')]_vars

\* C10, its case: the last octet of a chunk sent without a recipient is
\* read and the chunk dropped.
C10_Witness ==
  /\ session.req = ""
  /\ "can_send_data" \in Stages(session)
  /\ session.rcpt_to = <<>> /\ session.mail_from = None
  /\ session.queued = <<>> /\ session.message = <<>>
  /\ Len(session.out) = 1

\* What a session holds besides its driver state.
SessionData(s) ==
  [helo_domain |-> s.helo_domain, authenticated_as |-> s.authenticated_as,
   mail_from |-> s.mail_from, rcpt_to |-> s.rcpt_to, message |-> s.message,
   priority |-> s.priority, delivery_by |-> s.delivery_by,
   future_release |-> s.future_release, rcpt_errors |-> s.rcpt_errors]

\* C11: STARTTLS on a cleartext stream with a TLS acceptor writes 220, puts
\* the default Request state into the slot and returns the handover; the
\* bytes of the slice behind it stay unread, and the step that follows the
\* handover is the handshake, which writes nothing and changes no session
\* data, so the next call starts on an empty line.
C11_StartTlsDropsPipelined ==
  /\ [][(session'.req = "StartTls" /\ ~session.stream_tls /\ session.acceptor_tls
           /\ session'.wf # 1)
          => /\ session'.out = <<"220 2.0.0 Ready to start TLS.">>
             /\ session'.slot = StateDefault
             /\ session'.ret = "tls"
             /\ session'.left = session.left - 1
             /\ SessionData(session') = SessionData(session)]_vars
  /\ [][session.ret = "tls"
          => /\ session'.out = <<>> /\ session'.req = ""
             /\ session'.ret = "continue"
             /\ session'.slot = StateDefault
             /\ SessionData(session') = SessionData(session)]_vars

\* C11, its case: the handover with bytes of the slice still unread.
C11_Witness ==
  /\ session.req = "StartTls"
  /\ session.ret = "tls"
  /\ session.left > 0

\* The statuses handle_rcpt_to hands to rcpt_error.
ErrorStatuses ==
  {"550 5.1.2 Mailbox does not exist.", "550 5.1.2 Relay not allowed."}

\* The last collaborator the current action consulted.
LastConsulted(s) == s.consulted[Len(s.consulted)]

\* C12: the error path of RCPT sleeps first (before the counter moves and
\* before anything is written), then adds one to rcpt_errors (also when the
\* write that follows fails), then writes the 550 status; with the counter
\* at rcpt_errors_max or above it writes 421 after the status and ingest
\* returns the disconnect, otherwise the session goes on in Request.
C12_RcptErrorOrder ==
  [][(session'.req = "Rcpt" /\ "sleep" \in Stages(session'))
       => /\ LastConsulted(session').stage = "sleep"
          /\ LastConsulted(session').errors = session.rcpt_errors
          /\ LastConsulted(session').written = 0
          /\ session'.rcpt_errors = session.rcpt_errors + 1
          /\ CASE session'.wf = 1 ->
                    session'.out = <<>> /\ session'.ret = "disconnect"
               [] session'.wf # 1 /\ session'.rcpt_errors < session'.rcpt_errors_max ->
                    /\ Len(session'.out) = 1
                    /\ session'.out[1] \in ErrorStatuses
                    /\ session'.ret \in {"run", "continue"}
                    /\ DriverState(session').tag = "Request"
               [] session'.wf = 2 /\ session'.rcpt_errors >= session'.rcpt_errors_max ->
                    /\ Len(session'.out) = 1
                    /\ session'.out[1] \in ErrorStatuses
                    /\ session'.ret = "disconnect"
               [] OTHER ->
                    /\ Len(session'.out) = 2
                    /\ session'.out[1] \in ErrorStatuses
                    /\ session'.out[2] = "421 4.3.0 Too many errors, disconnecting."
                    /\ session'.ret = "disconnect"]_vars

\* C12, its case: the second recipient error of a session that allows two
\* is answered with the status, then 421.
C12_Witness ==
  /\ session.req = "Rcpt"
  /\ session.rcpt_errors >= 2 /\ session.rcpt_errors = session.rcpt_errors_max
  /\ Len(session.out) = 2
  /\ session.out[2] = "421 4.3.0 Too many errors, disconnecting."
  /\ session.ret = "disconnect"

\* C13 as stated: the counter moves only in a rejected RCPT and only from
\* a value below rcpt_errors_max, so it never exceeds rcpt_errors_max.
C13_AsStated ==
  /\ [](session.rcpt_errors <= session.rcpt_errors_max)
  /\ [][session'.rcpt_errors # session.rcpt_errors
          => /\ session'.req = "Rcpt" /\ "sleep" \in Stages(session')
             /\ session'.rcpt_to = session.rcpt_to
             /\ session.rcpt_errors < session.rcpt_errors_max]_vars

\* C13: the counter moves only in the error path of a rejected RCPT, by
\* one, and the session ends with the increment that takes it to
\* rcpt_errors_max or above.  With rcpt_errors_max >= 1 every increment
\* starts below rcpt_errors_max and the counter never exceeds it; with
\* rcpt_errors_max = 0 the first rejected RCPT takes the counter to 1.
C13_ErrorCounterBounded ==
  /\ [](\/ session.rcpt_errors <= session.rcpt_errors_max
        \/ session.rcpt_errors_max = 0 /\ session.rcpt_errors = 1)
  /\ []((session.rcpt_errors > 0 /\ session.rcpt_errors >= session.rcpt_errors_max)
          => session.ret = "disconnect")
  /\ [][session'.rcpt_errors # session.rcpt_errors
          => /\ session'.req = "Rcpt" /\ "sleep" \in Stages(session')
             /\ session'.rcpt_to = session.rcpt_to
             /\ session'.rcpt_errors = session.rcpt_errors + 1
             /\ \/ session.rcpt_errors < session.rcpt_errors_max
                \/ session.rcpt_errors_max = 0 /\ session.rcpt_errors = 0]_vars

\* C13, its case: the counter reaches a threshold above one and the session
\* ends.
C13_Witness ==
  /\ session.rcpt_errors_max >= 2
  /\ session.rcpt_errors = session.rcpt_errors_max
  /\ session.ret = "disconnect"
  /\ "sleep" \in Stages(session)

\* ------------------------------------------------------------------ C14

\* C14: when queue_message returns an empty reply at the completion of
\* DATA or of a BDAT LAST chunk, the call writes nothing and returns the
\* disconnect signal, and the session takes no further step: the commands
\* pipelined behind the message in the slice stay unread.
C14_EmptyReplyDisconnects ==
  /\ [](session.queued # <<>> /\ session.queued[1].reply = ""
          => /\ Len(session.queued) = 1
             /\ session.out = <<>>
             /\ session.ret = "disconnect")
  /\ [][session.ret # "disconnect"]_vars

\* The message of a BDAT LAST chunk was handed to the queue, the reply was
\* empty, and bytes of the slice are still unread.
C14_Witness ==
  /\ session.queued # <<>>
  /\ session.queued[1].reply = ""
  /\ session.queued[1].path = "Bdat"
  /\ session.ret = "disconnect"
  /\ session.left > 0

\* ------------------------------------------------------------------ C15

\* C15: after queue_message returned a non-empty reply the session is reset
\* once the replies are written and before the next command is read.  A
\* completion whose replies could not all be written has not reset; one
\* whose replies are written leaves the sender absent, the recipient list
\* and the message empty and the driver in Request.  Until the next command
\* is dispatched, in the same slice or in a later call, nothing touches the
\* envelope, so that command finds it cleared.
C15_ResetAfterReplies ==
  /\ [](session.queued # <<>> /\ session.queued[1].reply # ""
          => IF session.ret = "disconnect"
             THEN /\ session.mail_from = session.queued[1].mail_from
                  /\ Len(session.out) < session.wf
             ELSE /\ session.mail_from = None
                  /\ session.rcpt_to = <<>>
                  /\ session.message = <<>>
                  /\ session.out # <<>>
                  /\ session.out[Len(session.out)] = session.queued[1].reply
                  /\ DriverState(session).tag = "Request")
  /\ [][(DriverState(session).tag = "Request" /\ session'.req = "")
          => Envelope(session') = Envelope(session)]_vars

\* C15, its case: a message with a sender was queued and answered, the
\* session is reset, and the slice still holds pipelined bytes.
C15_Witness ==
  /\ QueuedAndReplied(session)
  /\ session.queued[1].mail_from # None
  /\ session.mail_from = None
  /\ session.ret = "run"
  /\ session.left > 0

\* ------------------------------------------------------------------ C16

\* The RCPT of the current action met a directory that could not answer
\* is_local_domain or rcpt.
DirectoryFailed(s) ==
  /\ s.req = "Rcpt"
  /\ "directory_error" \in Stages(s)

\* C16: when is_local_domain or the rcpt lookup fails, the RCPT is answered
\* 451 4.4.3, the tentative recipient is removed, rcpt_errors keeps its
\* value, there is no error delay, and the session goes on in Request
\* unless the write of the answer fails.
C16_DirectoryFailureIsTransient ==
  [][DirectoryFailed(session')
       => /\ session'.rcpt_to = session.rcpt_to
          /\ session'.rcpt_errors = session.rcpt_errors
          /\ "sleep" \notin Stages(session')
          /\ session'.queued = <<>>
          /\ \/ /\ session'.out = <<"451 4.4.3 Unable to verify address at this time.">>
                /\ session'.ret \in {"run", "continue"}
                /\ DriverState(session').tag = "Request"
             \/ /\ session'.out = <<>>
                /\ session'.wf = 1
                /\ session'.ret = "disconnect"]_vars

\* C16, its case: the lookup of a local recipient failed in a session that
\* holds a recipient and has counted an error, and the session goes on.
C16_Witness ==
  /\ DirectoryFailed(session)
  /\ "rcpt" \in Stages(session)
  /\ session.out = <<"451 4.4.3 Unable to verify address at this time.">>
  /\ session.rcpt_to # <<>>
  /\ session.rcpt_errors > 0
  /\ session.ret \in {"run", "continue"}

\* ------------------------------------------------------------------ C17

\* The parameters of a session.
SessionParams(s) ==
  [protocol |-> s.protocol, rcpt_max |-> s.rcpt_max,
   max_message_size |-> s.max_message_size, rcpt_dsn |-> s.rcpt_dsn,
   rcpt_errors_max |-> s.rcpt_errors_max]

\* The current action ran reset: RSET, or a message handed off and answered.
ResetRan(s) == s.req = "Rset" \/ QueuedAndReplied(s)

\* C17 as stated: RSET and the hand-off of a message put the HELO domain,
\* the authenticated identity, MAIL FROM, the RCPT list, the message
\* buffer, priority, delivery-by, future-release and the recipient error
\* counter at their initial values.
C17_AsStated ==
  [][ResetRan(session')
       => /\ SessionData(session') = SessionData(NewSession("Smtp", 0, 0, TRUE, 0, FALSE))
          /\ session'.session_id = session.session_id
          /\ SessionParams(session') = SessionParams(session)]_vars

\* C17: RSET and the hand-off of a message put MAIL FROM, the RCPT list,
\* the message buffer, priority, delivery-by and future-release at their
\* initial values; the HELO domain, the authenticated identity and the
\* recipient error counter keep the values they had, and so do the session
\* id and the parameters.
C17_ResetKeepsIdentity ==
  [][ResetRan(session')
       => /\ Envelope(session') = Envelope(NewSession("Smtp", 0, 0, TRUE, 0, FALSE))
          /\ session'.helo_domain = session.helo_domain
          /\ session'.authenticated_as = session.authenticated_as
          /\ session'.rcpt_errors = session.rcpt_errors
          /\ session'.session_id = session.session_id
          /\ SessionParams(session') = SessionParams(session)]_vars

\* C17, its case: RSET in a session that has greeted, has authenticated and
\* has counted a recipient error.
C17_Witness ==
  /\ session.req = "Rset"
  /\ session.out = <<"250 2.0.0 OK">>
  /\ session.mail_from = None
  /\ session.helo_domain = "h"
  /\ session.authenticated_as = "u"
  /\ session.rcpt_errors > 0

\* ------------------------------------------------------------------ C18

\* C18 as stated: while the driver is in DataTooLarge the message buffer
\* holds no body bytes.
C18_AsStated == DriverState(session).tag = "DataTooLarge" => session.message = <<>>

\* C18: the step that trips the size gate appends nothing to the message
\* buffer and queues nothing.  In DataTooLarge every byte is dropped: no
\* command is dispatched, no collaborator asked, nothing queued, and the
\* buffer keeps the bytes accepted before the gate tripped.  The byte
\* that ends the framing clears the buffer, writes 552 once and puts the
\* driver in Request with the sender and the recipients as they were;
\* if that write fails the session disconnects.
C18_TooLargeDrained ==
  /\ [][(DriverState(session).tag # "DataTooLarge"
           /\ DriverState(session').tag = "DataTooLarge")
          => /\ Len(session'.message) <= Len(session.message)
             /\ session'.queued = <<>>]_vars
  /\ [][DriverState(session).tag = "DataTooLarge"
          => /\ session'.req = ""
             /\ session'.consulted = <<>>
             /\ session'.queued = <<>>
             /\ session'.mail_from = session.mail_from
             /\ session'.rcpt_to = session.rcpt_to
             /\ \/ /\ DriverState(session').tag = "DataTooLarge"
                   /\ session'.out = <<>>
                   /\ session'.message = session.message
                   /\ session'.ret \in {"run", "continue"}
                \/ /\ DriverState(session').tag = "Request"
                   /\ session'.out = <<"552 5.3.4 Message too big for system.">>
                   /\ session'.message = <<>>
                   /\ session'.ret \in {"run", "continue"}
                \/ /\ session'.ret = "disconnect"
                   /\ session'.out = <<>>
                   /\ session'.wf = 1
                   /\ session'.message = <<>>]_vars

\* C18, its case: the drain of a message too large ended in a session
\* that still has its sender and a recipient, and 552 was written.
C18_Witness ==
  /\ session.req = ""
  /\ session.out = <<"552 5.3.4 Message too big for system.">>
  /\ session.message = <<>>
  /\ session.mail_from # None
  /\ session.rcpt_to # <<>>
  /\ DriverState(session).tag = "Request"

\* ------------------------------------------------------------------ C19

\* C19: a command line that grows past the maximum length takes the driver
\* from Request to RequestTooLarge without an answer.  There every byte up
\* to the CRLF is dropped, within the call and across calls: no command
\* is dispatched, no collaborator asked, nothing queued, the envelope is
\* unchanged.  The CRLF writes 554 once and puts the driver in Request; if
\* that write fails the session disconnects.
C19_LongLineDrained ==
  /\ [][(DriverState(session).tag # "RequestTooLarge"
           /\ DriverState(session').tag = "RequestTooLarge")
          => /\ DriverState(session).tag = "Request"
             /\ session'.req = ""
             /\ session'.out = <<>>
             /\ session'.queued = <<>>
             /\ Envelope(session') = Envelope(session)]_vars
  /\ [][DriverState(session).tag = "RequestTooLarge"
          => /\ session'.req = ""
             /\ session'.consulted = <<>>
             /\ session'.queued = <<>>
             /\ Envelope(session') = Envelope(session)
             /\ \/ /\ DriverState(session').tag = "RequestTooLarge"
                   /\ session'.out = <<>>
                   /\ session'.ret \in {"run", "continue"}
                \/ /\ DriverState(session').tag = "Request"
                   /\ session'.out = <<"554 5.3.4 Line is too long.">>
                   /\ session'.ret \in {"run", "continue"}
                \/ /\ session'.ret = "disconnect"
                   /\ session'.out = <<>>
                   /\ session'.wf = 1]_vars

\* C19, its case: in a session with a sender and a recipient, the CRLF of
\* a line that grew too long in an earlier call is the first byte of this
\* call, 554 is written and more bytes follow in the slice.
C19_Witness ==
  /\ session.req = ""
  /\ session.out = <<"554 5.3.4 Line is too long.">>
  /\ session.state.tag = "Request"
  /\ session.left = session.blen - 1
  /\ session.left > 0
  /\ session.mail_from # None
  /\ session.rcpt_to # <<>>

\* ------------------------------------------------------------------ C20

\* C20: QUIT writes `221 2.0.0 Bye.` and the call returns the disconnect
\* signal whether or not the write succeeds; the step queues nothing and
\* leaves the data of the session as it was, and a session that returned
\* the disconnect signal reads no further byte: what was pipelined after
\* QUIT is never processed and the transaction under way is never queued.
C20_QuitDisconnects ==
  /\ [][session'.req = "Quit"
          => /\ \/ session'.out = <<"221 2.0.0 Bye.">>
                \/ session'.out = <<>> /\ session'.wf = 1
             /\ session'.ret = "disconnect"
             /\ session'.queued = <<>>
             /\ session'.consulted = <<>>
             /\ session'.left = session.left - 1
             /\ SessionData(session') = SessionData(session)]_vars
  /\ [][session.ret = "disconnect" => session' = session]_vars

\* C20, its case: QUIT was answered in a session with a sender and a
\* recipient, and bytes pipelined after it are left in the slice.
C20_Witness ==
  /\ session.req = "Quit"
  /\ session.out = <<"221 2.0.0 Bye.">>
  /\ session.ret = "disconnect"
  /\ session.left > 0
  /\ session.mail_from # None
  /\ session.rcpt_to # <<>>

\* ------------------------------------------------------------------ C21

\* The greeting of the current action belongs to the protocol of the
\* listener: EHLO or HELO on SMTP, LHLO on LMTP.
GreetingOfProtocol(s) ==
  \/ s.req \in {"Ehlo", "Helo"} /\ s.protocol = "Smtp"
  \/ s.req = "Lhlo" /\ s.protocol = "Lmtp"

\* The command of the current action was answered with `response` and
\* nothing else happened: the driver stays in Request, or the write failed.
AnsweredOnly(s, t, response) ==
  /\ t.consulted = <<>>
  /\ t.queued = <<>>
  /\ SessionData(t) = SessionData(s)
  /\ \/ /\ t.out = <<response>>
        /\ t.ret \in {"run", "continue"}
        /\ DriverState(t).tag = "Request"
     \/ /\ t.out = <<>>
        /\ t.wf = 1
        /\ t.ret = "disconnect"

\* C21: the greeting handler runs exactly for EHLO and HELO on an SMTP
\* listener and for LHLO on an LMTP listener, and the HELO identity changes
\* only when it runs; EHLO and HELO on LMTP are refused with 500 and LHLO
\* on SMTP with 502, with the data of the session unchanged and the driver
\* in Request.
C21_GreetingGatedByProtocol ==
  /\ [][("handle_ehlo" \in Stages(session')) <=> GreetingOfProtocol(session')]_vars
  /\ [][session'.helo_domain # session.helo_domain
          => "handle_ehlo" \in Stages(session')]_vars
  /\ [][(session'.req \in {"Ehlo", "Helo"} /\ session.protocol # "Smtp")
          => AnsweredOnly(session, session', "500 5.5.1 Invalid command.")]_vars
  /\ [][(session'.req = "Lhlo" /\ session.protocol # "Lmtp")
          => AnsweredOnly(session, session', "502 5.5.1 Invalid command.")]_vars

\* C21, its case: LHLO is refused on an SMTP listener that EHLO had greeted.
C21_Witness ==
  /\ session.protocol = "Smtp"
  /\ session.req = "Lhlo"
  /\ session.out = <<"502 5.5.1 Invalid command.">>
  /\ session.helo_domain = "h"

\* ------------------------------------------------------------------ C22

\* The request on the line the session has read, about to be dispatched.
Pending(s) == Parse(s.state.buf)

\* The line read is a RCPT for an address that rcpt_to holds already, in
\* a session with a sender and with DSN parameters it may use.
DuplicateRcptPending(s) ==
  /\ Running(s) /\ s.state.tag = "Request"
  /\ Pending(s).kind = "Rcpt"
  /\ s.mail_from # None
  /\ ~NotifyRequested(Pending(s).n) \/ s.rcpt_dsn
  /\ \E i \in 1..Len(s.rcpt_to) :
       s.rcpt_to[i].address_lcase = ToLowercase(Pending(s).arg)

\* C22: a RCPT for an address already in rcpt_to, in a session with a
\* sender, is answered `250 2.1.5 OK` with no policy stage consulted and
\* with rcpt_to and rcpt_errors unchanged; when rcpt_to already holds
\* rcpt_max entries the same command is answered
\* `451 4.5.3 Too many recipients.` instead.
C22_DuplicateRcptAccepted ==
  [][(DuplicateRcptPending(session) /\ session'.req = "Rcpt")
       => IF Len(session.rcpt_to) >= session.rcpt_max
          THEN AnsweredOnly(session, session', "451 4.5.3 Too many recipients.")
          ELSE AnsweredOnly(session, session', "250 2.1.5 OK")]_vars

\* C22, its case: a RCPT was answered 250 without any stage consulted in a
\* session that holds a recipient and has room for another.
C22_Witness ==
  /\ session.req = "Rcpt"
  /\ session.out = <<"250 2.1.5 OK">>
  /\ session.consulted = <<>>
  /\ Len(session.rcpt_to) = 1
  /\ session.rcpt_max > 1

\* ------------------------------------------------------------------ C23

\* What the collaborator `stage` answered in the current action ("absent"
\* when it was not asked).
Answer(s, stage) ==
  IF stage \in Stages(s)
  THEN (CHOOSE e \in {s.consulted[i] : i \in 1..Len(s.consulted)} : e.stage = stage).answer
  ELSE "absent"

\* The RCPT of the current action went on to the rate limit.
VerifyPassed(s) == "is_allowed" \in Stages(s)

\* The RCPT of the current action ended in the error path with `response`:
\* the delay, the counter, and the response unless its write failed.
ErrorPath(s, t, response) ==
  /\ "sleep" \in Stages(t)
  /\ "is_allowed" \notin Stages(t)
  /\ t.rcpt_errors = s.rcpt_errors + 1
  /\ t.rcpt_to = s.rcpt_to
  /\ \/ t.out # <<>> /\ t.out[1] = response
     \/ t.out = <<>> /\ t.wf = 1 /\ t.ret = "disconnect"

\* What the relay predicate decides.
RelayDecides(s, t) ==
  /\ Answer(t, "rcpt") = "absent"
  /\ IF Answer(t, "relay") = "true"
     THEN VerifyPassed(t)
     ELSE /\ Answer(t, "relay") \in {"false", "none"}
          /\ ErrorPath(s, t, "550 5.1.2 Relay not allowed.")

\* C23: a RCPT that reaches the directory stage is decided by the answers
\* it got.  With a directory and a local domain the address lookup
\* decides and the relay predicate is not asked: an address that exists
\* passes, an absent one takes the error path with
\* `550 5.1.2 Mailbox does not exist.`.  With a directory and a domain that
\* is not local, or with no directory, the relay predicate decides: true
\* passes, false or no value takes the error path with
\* `550 5.1.2 Relay not allowed.`.
C23_DirectoryDecision ==
  [][(session'.req = "Rcpt" /\ "directory" \in Stages(session'))
       => CASE Answer(session', "directory") = "none" ->
                 /\ Answer(session', "is_local_domain") = "absent"
                 /\ RelayDecides(session, session')
            [] Answer(session', "is_local_domain") = "false" ->
                 RelayDecides(session, session')
            [] Answer(session', "is_local_domain") = "true" ->
                 /\ Answer(session', "relay") = "absent"
                 /\ CASE Answer(session', "rcpt") = "true" -> VerifyPassed(session')
                      [] Answer(session', "rcpt") = "false" ->
                           ErrorPath(session, session', "550 5.1.2 Mailbox does not exist.")
                      [] OTHER -> DirectoryFailed(session')
            [] OTHER -> DirectoryFailed(session')]_vars

\* C23, its case: with a directory and a domain that is not local the relay
\* predicate yielded no value, and the RCPT was refused in a session that
\* holds a recipient.
C23_Witness ==
  /\ session.req = "Rcpt"
  /\ Answer(session, "is_local_domain") = "false"
  /\ Answer(session, "relay") = "none"
  /\ session.out = <<"550 5.1.2 Relay not allowed.">>
  /\ session.rcpt_errors = 1
  /\ Len(session.rcpt_to) = 1

\* ------------------------------------------------------------------ C24

\* The place of a collaborator in handle_rcpt_to.
StageRank(stage) ==
  CASE stage = "script" -> 1
    [] stage = "sieve" -> 2
    [] stage = "milter" -> 3
    [] stage = "hook" -> 4
    [] stage = "rewrite" -> 5
    [] stage = "directory" -> 6
    [] stage = "is_local_domain" -> 7
    [] stage \in {"rcpt", "relay"} -> 8
    [] stage = "directory_error" -> 9
    [] stage = "is_allowed" -> 10
    [] stage = "sleep" -> 11
    [] OTHER -> 0

\* The collaborators were asked in the order of their places, each once.
InStageOrder(s) ==
  \A i, j \in 1..Len(s.consulted) :
    i < j => 0 < StageRank(s.consulted[i].stage)
             /\ StageRank(s.consulted[i].stage) < StageRank(s.consulted[j].stage)

\* The stage `stage` rejected with `response`: it was the last one asked,
\* the tentative recipient is gone and the error counter is as it was.
RejectedAt(s, t, stage, response) ==
  /\ LastConsulted(t).stage = stage
  /\ t.rcpt_to = s.rcpt_to
  /\ t.rcpt_errors = s.rcpt_errors
  /\ \/ t.out = <<response>> /\ t.ret \in {"run", "continue"}
     \/ t.out = <<>> /\ t.wf = 1 /\ t.ret = "disconnect"

\* C24: the collaborators of one RCPT are asked in the order script,
\* Sieve, milter, MTA hook, rewrite, directory, relay, rate limit, and a
\* stage that rejects is the last one asked.  is_allowed is asked only
\* after the directory or the relay predicate let the recipient pass; its
\* refusal is answered `451 4.4.5 Rate limit exceeded, try again later.`
\* with the recipient removed and rcpt_errors unchanged.  A recipient is
\* added to rcpt_to only by a RCPT whose last stage, is_allowed, passed,
\* and that RCPT is answered `250 2.1.5 OK`.
C24_StagesInOrder ==
  [][(session'.req = "Rcpt" /\ session'.consulted # <<>>)
       => /\ InStageOrder(session')
          /\ (session'.out # <<>> /\ session'.out[1] = "550 sieve")
               => RejectedAt(session, session', "sieve", "550 sieve")
          /\ (session'.out # <<>> /\ session'.out[1] = "550 milter")
               => RejectedAt(session, session', "milter", "550 milter")
          /\ (session'.out # <<>> /\ session'.out[1] = "550 hook")
               => RejectedAt(session, session', "hook", "550 hook")
          /\ "is_allowed" \in Stages(session')
               => /\ Answer(session', "rcpt") = "true" \/ Answer(session', "relay") = "true"
                  /\ LastConsulted(session').stage = "is_allowed"
          /\ Answer(session', "is_allowed") = "false"
               => RejectedAt(session, session', "is_allowed",
                             "451 4.4.5 Rate limit exceeded, try again later.")
          /\ session'.rcpt_to # session.rcpt_to
               => /\ Answer(session', "is_allowed") = "true"
                  /\ Len(session'.rcpt_to) = Len(session.rcpt_to) + 1
                  /\ session'.rcpt_errors = session.rcpt_errors
                  /\ \/ session'.out = <<"250 2.1.5 OK">>
                     \/ session'.out = <<>> /\ session'.wf = 1 /\ session'.ret = "disconnect"
          /\ (session'.out = <<"250 2.1.5 OK">> /\ session'.rcpt_to = session.rcpt_to)
               => /\ LastConsulted(session').stage = "rewrite"
                  /\ NoDuplicates(session.rcpt_to)]_vars

\* C24, its case: the rate limit refused a recipient that the Sieve script,
\* the milters, the hooks, the rewrite and the directory had let pass, in a
\* session that holds a recipient and has counted an error.
C24_Witness ==
  /\ session.req = "Rcpt"
  /\ Answer(session, "is_allowed") = "false"
  /\ {"sieve", "milter", "hook", "rewrite", "rcpt"} \subseteq Stages(session)
  /\ session.out = <<"451 4.4.5 Rate limit exceeded, try again later.">>
  /\ Len(session.rcpt_to) = 1
  /\ session.rcpt_errors = 1

\* ------------------------------------------------------------------ C25

\* The AUTH of the current action was refused with `response` before the
\* SASL handler ran: nothing changes and the driver stays in Request.
AuthRefused(s, t, response) ==
  /\ "handle_sasl_response" \notin Stages(t)
  /\ SessionData(t) = SessionData(s)
  /\ \/ /\ t.out = <<response>>
        /\ t.ret \in {"run", "continue"}
        /\ DriverState(t).tag = "Request"
     \/ /\ t.out = <<>>
        /\ t.wf = 1
        /\ t.ret = "disconnect"

\* C25: AUTH is refused `503 5.5.1 AUTH not allowed.` when the configured
\* mechanisms are empty or there is no auth directory; else
\* `503 5.5.1 Already authenticated.` when authenticated_as is set; else
\* `554 5.7.8 Authentication mechanism not supported.` when the offered
\* and the configured mechanisms give no SASL token; else the SASL handler
\* runs, and the driver enters Sasl exactly when the handler asks for a
\* continuation.  Nothing else takes the driver into Sasl, so a session
\* already authenticated never enters it.
C25_AuthOrder ==
  /\ [][session'.req = "Auth"
          => IF Answer(session', "auth.mechanisms") = "none" \/ ~session.auth_directory
             THEN AuthRefused(session, session', "503 5.5.1 AUTH not allowed.")
             ELSE IF session.authenticated_as # ""
             THEN AuthRefused(session, session', "503 5.5.1 Already authenticated.")
             ELSE IF Answer(session', "auth.mechanisms") = "unsupported"
             THEN AuthRefused(session, session',
                              "554 5.7.8 Authentication mechanism not supported.")
             ELSE /\ "handle_sasl_response" \in Stages(session')
                  /\ DriverState(session').tag = "Sasl"
                       <=> /\ Answer(session', "handle_sasl_response") = "more"
                           /\ session'.ret # "disconnect"
                  /\ session'.ret # "disconnect"
                       => DriverState(session').tag \in {"Sasl", "Request"}]_vars
  /\ [][(DriverState(session).tag # "Sasl" /\ DriverState(session').tag = "Sasl")
          => /\ session'.req = "Auth"
             /\ session.authenticated_as = ""
             /\ session.auth_directory]_vars

\* C25, its case: AUTH in a session already authenticated, with mechanisms
\* configured, is refused.
C25_Witness ==
  /\ session.req = "Auth"
  /\ session.authenticated_as = "u"
  /\ Answer(session, "auth.mechanisms") = "ok"
  /\ session.out = <<"503 5.5.1 Already authenticated.">>

\* ------------------------------------------------------------------ C26

\* The current action completed a BDAT chunk: can_send_data was asked
\* outside a DATA command.
ChunkCompleted(s) == "can_send_data" \in Stages(s) /\ s.req # "Data"

\* The chunk the action from s to t completed was announced with LAST.
ChunkIsLast(s, t) == IF t.req = "Bdat" THEN Pending(s).flag ELSE s.state.is_last

\* C26 as stated: a completed chunk is queued exactly when it is the last
\* and can_send_data permits; every other chunk is acknowledged with
\* `250 2.6.0 Chunk accepted.` and its bytes and the envelope are kept.
C26_AsStated ==
  [][(ChunkCompleted(session') /\ session'.ret # "disconnect")
       => /\ DriverState(session').tag = "Request"
          /\ IF ChunkIsLast(session, session')
                /\ Answer(session', "can_send_data") = "true"
             THEN session'.queued # <<>>
             ELSE /\ session'.queued = <<>>
                  /\ \E i \in 1..Len(session'.out) :
                       session'.out[i] = "250 2.6.0 Chunk accepted."
                  /\ Len(session'.message) >= Len(session.message)
                  /\ session'.mail_from = session.mail_from
                  /\ session'.rcpt_to = session.rcpt_to]_vars

\* C26: a completed chunk is queued exactly when it is the last and
\* can_send_data permits.  A chunk that is not the last and that
\* can_send_data permits is acknowledged with `250 2.6.0 Chunk accepted.`
\* and its bytes stay in the buffer.  A chunk can_send_data refuses, last
\* or not, is not acknowledged by ingest and the whole buffer is dropped.
\* The sender and the recipients are kept in both cases, and the driver is
\* back in Request unless the session disconnects.
C26_ChunkCompletion ==
  [][ChunkCompleted(session')
       => /\ session'.queued # <<>>
               <=> /\ ChunkIsLast(session, session')
                   /\ Answer(session', "can_send_data") = "true"
          /\ session'.ret # "disconnect" => DriverState(session').tag = "Request"
          /\ (session'.queued = <<>> /\ session'.ret # "disconnect")
               => /\ session'.mail_from = session.mail_from
                  /\ session'.rcpt_to = session.rcpt_to
                  /\ IF Answer(session', "can_send_data") = "true"
                     THEN /\ session'.out = <<"250 2.6.0 Chunk accepted.">>
                          /\ Len(session'.message) >= Len(session.message)
                          /\ session.state.tag = "Bdat"
                               => Len(session'.message) = Len(session.message) + 1
                     ELSE /\ session'.message = <<>>
                          /\ \A i \in 1..Len(session'.out) :
                               session'.out[i] # "250 2.6.0 Chunk accepted."]_vars

\* C26, its case: a chunk completed in a session with a sender and a
\* recipient, can_send_data refused, and the buffer is empty.
C26_Witness ==
  /\ ChunkCompleted(session)
  /\ session.req = ""
  /\ Answer(session, "can_send_data") = "false"
  /\ session.mail_from # None
  /\ session.rcpt_to # <<>>
  /\ session.message = <<>>
  /\ session.queued = <<>>
  /\ session.ret # "disconnect"

\* ------------------------------------------------------------------ C27

\* C27: in Sasl no line is dispatched as a command.  The SASL handler gets
\* a completed line only if it is shorter than the maximum line length;
\* when it asks for a continuation the driver stays in Sasl with an empty
\* line buffer, otherwise the driver is back in Request.  A completed line
\* that reached the maximum length is answered with the authentication
\* error, without the handler, and the driver is back in Request.  A byte
\* that completes no line leaves the driver in Sasl and the session as it
\* was.
C27_SaslLines ==
  [][DriverState(session).tag = "Sasl"
       => /\ session'.req = ""
          /\ session'.queued = <<>>
          /\ Envelope(session') = Envelope(session)
          /\ CASE "handle_sasl_response" \in Stages(session') ->
                    /\ Len(session.state.buf) < MaxLine
                    /\ session'.ret # "disconnect"
                         => IF Answer(session', "handle_sasl_response") = "more"
                            THEN /\ DriverState(session').tag = "Sasl"
                                 /\ DriverState(session').buf = <<>>
                            ELSE DriverState(session').tag = "Request"
               [] session'.out # <<>> \/ session'.ret = "disconnect" ->
                    /\ Len(session.state.buf) >= MaxLine
                    /\ SessionData(session') = SessionData(session)
                    /\ \/ /\ session'.out =
                               <<"500 5.5.6 Authentication Exchange line is too long.">>
                          /\ DriverState(session').tag = "Request"
                       \/ /\ session'.out = <<>>
                          /\ session'.wf = 1
                          /\ session'.ret = "disconnect"
               [] OTHER ->
                    /\ DriverState(session').tag = "Sasl"
                    /\ SessionData(session') = SessionData(session)
                    /\ Len(DriverState(session').buf) <= MaxLine]_vars

\* C27, its case: a continuation line that reached the maximum length was
\* answered with the authentication error and the driver is in Request,
\* with more bytes in the slice.
C27_Witness ==
  /\ session.req = ""
  /\ session.out = <<"500 5.5.6 Authentication Exchange line is too long.">>
  /\ session.state.tag = "Request"
  /\ session.authenticated_as = ""
  /\ session.left > 0

\* ------------------------------------------------------------------ C28

\* The stages of a RCPT whose expressions are evaluated with the session
\* as the resolver of variables.
PolicyStages == {"script", "rewrite", "directory", "relay"}

\* The address a RCPT has tentatively appended, as it stands when a stage
\* is evaluated: the lowercased argument of the command, replaced by the
\* address a Sieve script set, replaced by the address the rewrite rule
\* returned, each once that stage has run.
TentativeAt(s, t, stage) ==
  LET given == ToLowercase(Pending(s).arg)
      sieved == IF Answer(t, "sieve") = "modify" THEN "a@x" ELSE given
      rewritten == IF ContainsAt(Answer(t, "rewrite"))
                   THEN ToLowercase(Answer(t, "rewrite")) ELSE sieved
  IN CASE stage = "script" -> given
       [] stage = "rewrite" -> sieved
       [] OTHER -> rewritten

\* C28: RECIPIENT and RECIPIENT_DOMAIN resolve to the lowercased address
\* and the domain of the last entry of rcpt_to, and to the empty value
\* when rcpt_to is empty; while the policy stages of a RCPT are evaluated
\* (script name, rewrite, directory name, relay predicate) they denote the
\* tentatively appended recipient, and once that RCPT is rejected they
\* denote the previously accepted recipient again.
C28_RecipientVariable ==
  /\ [](IF session.rcpt_to = <<>>
        THEN V_RECIPIENT(session) = "" /\ V_RECIPIENT_DOMAIN(session) = ""
        ELSE LET last == session.rcpt_to[Len(session.rcpt_to)] IN
             /\ V_RECIPIENT(session) = ToLowercase(last.address)
             /\ V_RECIPIENT_DOMAIN(session) = DomainPart(ToLowercase(last.address)))
  /\ [][session'.req = "Rcpt"
          => /\ \A i \in 1..Len(session'.consulted) :
                  LET e == session'.consulted[i] IN
                  /\ e.stage \in PolicyStages
                       => /\ e.recipient = TentativeAt(session, session', e.stage)
                          /\ e.domain = DomainPart(e.recipient)
                  /\ e.stage = "sleep"
                       => /\ e.recipient = V_RECIPIENT(session)
                          /\ e.domain = V_RECIPIENT_DOMAIN(session)
             /\ Len(session'.rcpt_to) = Len(session.rcpt_to)
                  => /\ V_RECIPIENT(session') = V_RECIPIENT(session)
                     /\ V_RECIPIENT_DOMAIN(session') = V_RECIPIENT_DOMAIN(session)]_vars

\* C28, its case: with one recipient accepted, a RCPT for another address
\* was rejected after the relay predicate was evaluated with the new
\* address as RECIPIENT, and RECIPIENT is the accepted one again.
C28_Witness ==
  /\ session.req = "Rcpt"
  /\ Len(session.rcpt_to) = 1
  /\ session.consulted # <<>>
  /\ \E i \in 1..Len(session.consulted) :
       /\ session.consulted[i].stage = "relay"
       /\ session.consulted[i].recipient # V_RECIPIENT(session)
       /\ session.consulted[i].recipient # ""
  /\ LastConsulted(session).stage = "sleep"
  /\ LastConsulted(session).recipient = V_RECIPIENT(session)
  /\ V_RECIPIENT(session) # ""

\* ------------------------------------------------------------------ C29

\* The line read is a BDAT whose chunk, added to the accumulated message
\* in the integers, reaches max_message_size.
OversizeBdatPending(s) ==
  /\ Running(s) /\ s.state.tag = "Request"
  /\ Pending(s).kind = "Bdat"
  /\ Pending(s).n + Len(s.message) >= s.max_message_size

\* The chunk was routed to DataTooLarge: the driver discards it, or has
\* discarded all of it and answered 552.
RoutedToTooLarge(t) ==
  /\ t.ret # "panic"
  /\ \/ DriverState(t).tag = "DataTooLarge"
     \/ \E i \in 1..Len(t.out) : t.out[i] = "552 5.3.4 Message too big for system."
     \/ t.ret = "disconnect"

\* C29: the size gate of BDAT admits no chunk through integer overflow;
\* for every chunk_size of the machine word, a chunk whose true sum with
\* the accumulated message length is at least max_message_size is routed
\* to DataTooLarge and never to the Bdat receiver.
C29_OversizeChunkRefused ==
  [][(OversizeBdatPending(session) /\ session'.req = "Bdat")
       => RoutedToTooLarge(session')]_vars

\* C29, the divergence: with bytes of an earlier chunk in the buffer, a
\* BDAT whose size makes the sum overflow ended the session task in a
\* panic.
C29_OverflowPanics ==
  /\ session.req = "Bdat"
  /\ session.ret = "panic"
  /\ session.message # <<>>

\* ------------------------------------------------------------------ C30

\* The statuses of the two rejections that count: the mailbox does not
\* exist, relaying is not allowed.
Rejections550 == {"550 5.1.2 Mailbox does not exist.", "550 5.1.2 Relay not allowed."}

\* The current action answered a RCPT with one of the two 550 statuses.
Rejected550(s) == s.req = "Rcpt" /\ s.out # <<>> /\ s.out[1] \in Rejections550

\* The current action wrote the 421 of the error path and ended the session.
Disconnected421(s) ==
  /\ Len(s.out) = 2
  /\ s.out[2] = "421 4.3.0 Too many errors, disconnecting."
  /\ s.ret = "disconnect"

\* The current action answered 552 to an oversize message.
Rejected552(s) ==
  \E i \in 1..Len(s.out) : s.out[i] = "552 5.3.4 Message too big for system."

\* C30 as stated: rcpt_errors is never decreased or reset, and the session
\* is disconnected with 421 exactly at its rcpt_errors_max-th 550
\* rejection, counted across all transactions.
C30_AsStated ==
  /\ [][session'.rcpt_errors >= session.rcpt_errors]_vars
  /\ [][(Rejected550(session') /\ session'.wf = 0)
          => /\ session'.rcpt_errors = session.rcpt_errors + 1
             /\ Disconnected421(session') <=> session'.rcpt_errors = session'.rcpt_errors_max]_vars

\* C30: rcpt_errors is never decreased: RSET, a queued message and a 552
\* leave it as it is, and it moves only by one, in a RCPT answered with
\* one of the two 550 statuses (or whose answer the transport lost).  It
\* therefore counts the 550 rejections of the whole session, and the
\* session is disconnected with 421 exactly at the rejection that takes
\* the count to rcpt_errors_max: the rcpt_errors_max-th, or the first when
\* rcpt_errors_max is 0.
C30_ErrorsAcrossTransactions ==
  /\ [][session'.rcpt_errors >= session.rcpt_errors]_vars
  /\ [][(ResetRan(session') \/ Rejected552(session'))
          => session'.rcpt_errors = session.rcpt_errors]_vars
  /\ [][session'.rcpt_errors # session.rcpt_errors
          => /\ session'.rcpt_errors = session.rcpt_errors + 1
             /\ session'.req = "Rcpt"
             /\ \/ Rejected550(session')
                \/ session'.out = <<>> /\ session'.ret = "disconnect"]_vars
  /\ [][(Rejected550(session') /\ session'.wf = 0)
          => /\ session'.rcpt_errors = session.rcpt_errors + 1
             /\ Disconnected421(session')
                  <=> \/ session'.rcpt_errors = session'.rcpt_errors_max
                      \/ session'.rcpt_errors_max = 0 /\ session'.rcpt_errors = 1
             /\ ~Disconnected421(session')
                  => session'.ret # "disconnect" /\ Len(session'.out) = 1]_vars

\* C30, its case: a rejection was counted, a reset passed over the count,
\* and the rejection that followed in the next transaction took the count
\* to rcpt_errors_max and was answered 550, then 421.
C30_Witness ==
  /\ Rejected550(session)
  /\ Disconnected421(session)
  /\ session.carried = 1
  /\ session.rcpt_errors = 2
  /\ session.rcpt_errors_max = 2

\* ------------------------------------------------------------------ C31

\* The buffer after a step: emptied, as it was, without the CRLF that
\* began the terminator, or longer by the one byte of the step.
BufferStep(before, after) ==
  \/ after = <<>>
  \/ after = before
  \/ after = Truncate(before)
  \/ \E b \in BodyBytes : after = Append(before, b)

\* C31: a 552 oversize rejection (DATA or BDAT) empties the message buffer
\* and leaves mail_from and rcpt_to as they are, with no reset and nothing
\* queued; the buffer then grows only by the bytes received after it, so a
\* later DATA or BDAT LAST of the session is queued for the sender and the
\* recipients the session holds, with a message that has none of the bytes
\* received before the 552, those of acknowledged BDAT chunks included.
C31_OversizeKeepsEnvelope ==
  /\ [][Rejected552(session')
          => /\ session'.message = <<>>
             /\ session'.mail_from = session.mail_from
             /\ session'.rcpt_to = session.rcpt_to
             /\ session'.helo_domain = session.helo_domain
             /\ session'.authenticated_as = session.authenticated_as
             /\ session'.rcpt_errors = session.rcpt_errors
             /\ session'.queued = <<>>
             /\ session'.ret # "disconnect" => DriverState(session').tag = "Request"]_vars
  /\ [][BufferStep(session.message, session'.message)]_vars
  /\ [][session'.queued # <<>>
          => /\ Len(session'.queued) = 1
             /\ session'.queued[1].mail_from = session.mail_from
             /\ session'.queued[1].rcpt_to = session.rcpt_to
             /\ \/ session'.queued[1].message = session.message
                \/ session'.queued[1].message = Truncate(session.message)
                \/ \E b \in BodyBytes :
                     session'.queued[1].message = Append(session.message, b)]_vars
  /\ [](session.dropped => session.mail_from # None)

\* C31, its case: in a transaction in which a 552 discarded bytes the
\* buffer held, a later message was queued for the sender and a recipient
\* and answered.
C31_Witness ==
  /\ QueuedAndReplied(session)
  /\ session.queued[1].dropped
  /\ session.queued[1].mail_from # None
  /\ session.queued[1].rcpt_to # <<>>
  /\ session.queued[1].message # <<>>

====
